---- MODULE Spec2Model ----
(***************************************************************************)
(* Repair-assistant pipeline (backend/agents/graph.py) driven by the chat  *)
(* endpoint (backend/chat/routes.py).  A Python str is a sequence of       *)
(* one-character strings, so that len(), "in", lower(), strip() and the    *)
(* regular expressions of the source are computed character by character.  *)
(***************************************************************************)
EXTENDS Integers, Sequences, FiniteSets, TLC

(* ------------------------------ text ---------------------------------- *)

\* str.lower() on one character (ASCII letters)
LowerChar(c) ==
  CASE c = "A" -> "a" [] c = "B" -> "b" [] c = "C" -> "c" [] c = "D" -> "d" [] c = "E" -> "e" [] c = "F" -> "f" [] c = "G" -> "g" [] c = "H" -> "h" [] c = "I" -> "i" [] c = "J" -> "j" [] c = "K" -> "k" [] c = "L" -> "l" [] c = "M" -> "m" [] c = "N" -> "n" [] c = "O" -> "o" [] c = "P" -> "p" [] c = "Q" -> "q" [] c = "R" -> "r" [] c = "S" -> "s" [] c = "T" -> "t" [] c = "U" -> "u" [] c = "V" -> "v" [] c = "W" -> "w" [] c = "X" -> "x" [] c = "Y" -> "y" [] c = "Z" -> "z"
    [] OTHER -> c

\* str.lower()
Lower(s) == SubSeq([i \in 1..Len(s) |-> LowerChar(s[i])], 1, Len(s))

\* the characters str.strip() and the regex class \s remove
Whitespace == {" ", "\n", "\t", "\r"}

\* the regex class \d
Digits == {"0", "1", "2", "3", "4", "5", "6", "7", "8", "9"}

\* s[i:] starts with w (1-based i)
StartsWithAt(s, i, w) ==
  /\ i >= 1
  /\ i + Len(w) - 1 <= Len(s)
  /\ SubSeq(s, i, i + Len(w) - 1) = w

\* Python's  w in s
Contains(s, w) == \E i \in 1..(Len(s) + 1) : StartsWithAt(s, i, w)

\* str.strip()
Strip(s) ==
  LET keep == {i \in 1..Len(s) : s[i] \notin Whitespace}
  IN  IF keep = {} THEN <<>>
      ELSE SubSeq(s, CHOOSE i \in keep : \A j \in keep : i <= j,
                     CHOOSE i \in keep : \A j \in keep : i >= j)

\* sep.join(parts)
RECURSIVE Join(_, _)
Join(parts, sep) ==
  IF parts = <<>> THEN <<>>
  ELSE IF Len(parts) = 1 THEN parts[1]
  ELSE parts[1] \o sep \o Join(Tail(parts), sep)

\* Python None, as a value no text is equal to
None == <<"None">>

\* Python truthiness of an Optional[str]
Truthy(t) == t # None /\ t # <<>>

\* the elements of a sequence
Range(s) == {s[n] : n \in 1..Len(s)}

\* least element of a non-empty set of integers
Least(S) == CHOOSE i \in S : \A j \in S : i <= j

\* greatest element of a non-empty set of integers
Greatest(S) == CHOOSE i \in S : \A j \in S : i >= j

\* the elements of a finite set of integers in ascending order
RECURSIVE Ascending(_)
Ascending(S) ==
  IF S = {} THEN <<>> ELSE <<Least(S)>> \o Ascending(S \ {Least(S)})

(* ------------------- extraction heuristics (graph.py) ------------------ *)

\* end of the longest run of digits that starts at i (i - 1 when s[i] is no digit)
DigitRunEnd(s, i) ==
  Greatest({e \in (i - 1)..Len(s) : \A k \in i..e : s[k] \in Digits})

\* end of the longest run of whitespace that starts at i (i - 1 when there is none)
SpaceRunEnd(s, i) ==
  Greatest({e \in (i - 1)..Len(s) : \A k \in i..e : s[k] \in Whitespace})

\* the position of the first line break at or after from, Len(s) + 1 when none
EndOfLine(s, from) ==
  LET breaks == {p \in from..Len(s) : s[p] = "\n"}
  IN  IF breaks = {} THEN Len(s) + 1 ELSE Least(breaks)

\* the digits of  \[(\d+)\]  run from i + 1 to e: the position of "]", else 0
BracketIdClose(s, i, e) ==
  IF e >= i + 1 /\ e + 1 <= Len(s) /\ s[e + 1] = "]" THEN e + 1 ELSE 0

\* re  \[(\d+)\]  matched at i: the position of the closing bracket, else 0
BracketIdEnd(s, i) ==
  IF i <= Len(s) /\ s[i] = "[" THEN BracketIdClose(s, i, DigitRunEnd(s, i + 1)) ELSE 0

\* group(1) of the matches of  \[(\d+)\]  that start at the positions at
BracketIdsAt(s, at) ==
  [n \in 1..Len(at) |-> SubSeq(s, at[n] + 1, BracketIdEnd(s, at[n]) - 1)]

\* re.findall(r'\[(\d+)\]', s)
FindBracketIds(s) ==
  BracketIdsAt(s, Ascending({i \in 1..Len(s) : BracketIdEnd(s, i) > 0}))

\* the digits of  (?:ID|id):\s*(\d+)  start at d: <<first, last>>, else <<0, 0>>
DigitSpanFrom(s, d) ==
  IF DigitRunEnd(s, d) >= d THEN <<d, DigitRunEnd(s, d)>> ELSE <<0, 0>>

\* re  (?:ID|id):\s*(\d+)  matched at i: <<first digit, last digit>>, else <<0, 0>>
LabelledIdSpan(s, i) ==
  IF StartsWithAt(s, i, <<"I","D",":">>) \/ StartsWithAt(s, i, <<"i","d",":">>)
  THEN DigitSpanFrom(s, SpaceRunEnd(s, i + 3) + 1)
  ELSE <<0, 0>>

\* group(1) of the matches of  (?:ID|id):\s*(\d+)  that start at the positions at
LabelledIdsAt(s, at) ==
  [n \in 1..Len(at) |->
     SubSeq(s, LabelledIdSpan(s, at[n])[1], LabelledIdSpan(s, at[n])[2])]

\* re.findall(r'(?:ID|id):\s*(\d+)', s)
FindLabelledIds(s) ==
  LabelledIdsAt(s, Ascending({i \in 1..Len(s) : LabelledIdSpan(s, i)[1] > 0}))

\* id_matches of _extract_guide_id: the bracketed ids, else the labelled ones
IdMatches(bracketed, guides_result) ==
  IF bracketed = <<>> THEN FindLabelledIds(guides_result) ELSE bracketed

\* the keyword lists that _extract_guide_id looks for in the query
QueryWordsDisc == {<<"d","i","s","c">>, <<"d","r","i","v","e">>, <<"d","i","s","k">>, <<"d","v","d">>, <<"c","d">>, <<"b","l","u">>}
QueryWordsScreen == {<<"s","c","r","e","e","n">>, <<"d","i","s","p","l","a","y">>, <<"l","c","d">>, <<"g","l","a","s","s">>}
QueryWordsBattery == {<<"b","a","t","t","e","r">>}

\* the alternatives of the three line patterns of _extract_guide_id
LineWordsDisc == {<<"d","i","s","c">>, <<"d","r","i","v","e">>, <<"d","i","s","k">>}
LineWordsScreen == {<<"s","c","r","e","e","n">>, <<"d","i","s","p","l","a","y">>, <<"l","c","d">>}
LineWordsBattery == {<<"b","a","t","t","e","r">>}

\* [^\n]*(w1|w2|..)  with re.IGNORECASE after the "]" at close; low is s in
\* lower case
KeywordAfter(s, low, close, words) ==
  /\ close > 0
  /\ \E j \in (close + 1)..(EndOfLine(s, close + 1) - 1), w \in words :
       StartsWithAt(low, j, w)

\* re  \[(\d+)\][^\n]*(w1|w2|..)  with re.IGNORECASE matched at i
LineMatchAt(s, low, i, words) == KeywordAfter(s, low, BracketIdEnd(s, i), words)

\* group(1) of the match that starts first among the positions at, <<>> when none
FirstLineMatchAt(s, at) ==
  IF at = {} THEN <<>>
  ELSE SubSeq(s, Least(at) + 1, BracketIdEnd(s, Least(at)) - 1)

\* group(1) of the first match re.finditer yields for a line pattern
FirstLineMatchIn(s, low, words) ==
  FirstLineMatchAt(s, {i \in 1..Len(s) : LineMatchAt(s, low, i, words)})

FirstLineMatch(s, words) == FirstLineMatchIn(s, Lower(s), words)

\* one  if any(word in user_query ...): for match in re.finditer(...): return
\* of _extract_guide_id: what it returns, <<>> when control falls through
KeywordGroup(guides_result, user_query, query_words, line_words) ==
  IF \E w \in query_words : Contains(user_query, w)
  THEN FirstLineMatch(guides_result, line_words)
  ELSE <<>>

\* the body of  if id_matches:  falling back on the last id found
PickGuideIdLast(id_matches, disc, screen, battery) ==
  IF id_matches = <<>> THEN <<>>
  ELSE IF disc # <<>> THEN disc
  ELSE IF screen # <<>> THEN screen
  ELSE IF battery # <<>> THEN battery
  ELSE id_matches[Len(id_matches)]

\* the body of  if id_matches:  in _extract_guide_id
PickGuideId(id_matches, disc, screen, battery) ==
  IF id_matches = <<>> THEN <<>>
  ELSE IF disc # <<>> THEN disc
  ELSE IF screen # <<>> THEN screen
  ELSE IF battery # <<>> THEN battery
  ELSE id_matches[1]

\* _extract_guide_id(guides_result, user_query)
extract_guide_id(guides_result, user_query) ==
  PickGuideId(IdMatches(FindBracketIds(guides_result), guides_result),
              KeywordGroup(guides_result, user_query, QueryWordsDisc, LineWordsDisc),
              KeywordGroup(guides_result, user_query, QueryWordsScreen, LineWordsScreen),
              KeywordGroup(guides_result, user_query, QueryWordsBattery, LineWordsBattery))

\* the first "(" after i, 0 when none
FirstParenAfter(s, i) ==
  LET parens == {p \in (i + 1)..Len(s) : s[p] = "("}
  IN  IF parens = {} THEN 0 ELSE Least(parens)

\* ([^(]+)\s*\(URL:  after the "-" at i, p the first "(" after it
TitleUrlParenAt(s, i, p) ==
  IF p > i + 1 /\ StartsWithAt(s, p, <<"(","U","R","L",":">>) THEN p ELSE 0

\* re  -\s*([^(]+)\s*\(URL:  matched at i: the position of the "(", else 0
TitleUrlParen(s, i) ==
  IF i <= Len(s) /\ s[i] = "-" THEN TitleUrlParenAt(s, i, FirstParenAfter(s, i)) ELSE 0

\* \s*([^\n]+)  after the "Device:" at i, b the first character after the
\* whitespace: <<matched, group(1).strip()>>
DeviceLabelGroup(s, i, b) ==
  IF b <= Len(s) THEN <<TRUE, Strip(SubSeq(s, b, EndOfLine(s, b) - 1))>>
  ELSE IF \E k \in (i + 7)..Len(s) : s[k] # "\n" THEN <<TRUE, <<>>>>
  ELSE <<FALSE, <<>>>>

\* re  Device:\s*([^\n]+)  matched at i: <<matched, group(1).strip()>>
DeviceLabelMatch(s, i) ==
  IF StartsWithAt(s, i, <<"D","e","v","i","c","e",":">>)
  THEN DeviceLabelGroup(s, i, SpaceRunEnd(s, i + 7) + 1)
  ELSE <<FALSE, <<>>>>

\* json.loads for objects of string values and arrays of such objects; a
\* reader returns [ok, val, next], ok FALSE where json.loads raises
JsonFail(i) == [ok |-> FALSE, val |-> <<>>, next |-> i]

\* a string literal (no escapes) at i, quotes the positions of the later quotes
JsonStringTo(s, i, quotes) ==
  IF i <= Len(s) /\ s[i] = "\"" /\ quotes # {}
  THEN [ok |-> TRUE, val |-> SubSeq(s, i + 1, Least(quotes) - 1), next |-> Least(quotes) + 1]
  ELSE JsonFail(i)

JsonString(s, i) == JsonStringTo(s, i, {j \in (i + 1)..Len(s) : s[j] = "\""})

\* the members of an object from i (after "{" or ","), read after the pairs acc
RECURSIVE JsonMembers(_, _, _)

\* after the member k : v, at the "," or "}" at position after
JsonAfterMember(s, i, acc, k, v, after) ==
  IF v.ok /\ after <= Len(s) /\ s[after] = "}"
  THEN [ok |-> TRUE, val |-> Append(acc, <<k.val, v.val>>), next |-> after + 1]
  ELSE IF v.ok /\ after <= Len(s) /\ s[after] = ","
  THEN JsonMembers(s, after + 1, Append(acc, <<k.val, v.val>>))
  ELSE JsonFail(i)

JsonAfterValue(s, i, acc, k, v) ==
  JsonAfterMember(s, i, acc, k, v, SpaceRunEnd(s, v.next) + 1)

\* after the key k, colon the position where ":" must stand
JsonAfterKey(s, i, acc, k, colon) ==
  IF k.ok /\ colon <= Len(s) /\ s[colon] = ":"
  THEN JsonAfterValue(s, i, acc, k, JsonString(s, SpaceRunEnd(s, colon + 1) + 1))
  ELSE JsonFail(i)

JsonMember(s, i, acc, k) == JsonAfterKey(s, i, acc, k, SpaceRunEnd(s, k.next) + 1)

JsonMembers(s, i, acc) == JsonMember(s, i, acc, JsonString(s, SpaceRunEnd(s, i) + 1))

\* an object at i, b the first position after "{" and whitespace
JsonObjectFrom(s, i, b) ==
  IF b <= Len(s) /\ s[b] = "}" THEN [ok |-> TRUE, val |-> <<>>, next |-> b + 1]
  ELSE JsonMembers(s, i + 1, <<>>)

JsonObject(s, i) ==
  IF i <= Len(s) /\ s[i] = "{" THEN JsonObjectFrom(s, i, SpaceRunEnd(s, i + 1) + 1)
  ELSE JsonFail(i)

\* the elements of an array from i (after "[" or ","), read after the objects acc
RECURSIVE JsonElements(_, _, _)

JsonAfterElement(s, i, acc, o, after) ==
  IF o.ok /\ after <= Len(s) /\ s[after] = "]"
  THEN [ok |-> TRUE, val |-> Append(acc, o.val), next |-> after + 1]
  ELSE IF o.ok /\ after <= Len(s) /\ s[after] = ","
  THEN JsonElements(s, after + 1, Append(acc, o.val))
  ELSE JsonFail(i)

JsonElement(s, i, acc, o) == JsonAfterElement(s, i, acc, o, SpaceRunEnd(s, o.next) + 1)

JsonElements(s, i, acc) == JsonElement(s, i, acc, JsonObject(s, SpaceRunEnd(s, i) + 1))

\* an array at i, b the first position after "[" and whitespace
JsonArrayFrom(s, i, b) ==
  IF b <= Len(s) /\ s[b] = "]" THEN [ok |-> TRUE, val |-> <<>>, next |-> b + 1]
  ELSE JsonElements(s, i + 1, <<>>)

JsonArray(s, i) ==
  IF i <= Len(s) /\ s[i] = "[" THEN JsonArrayFrom(s, i, SpaceRunEnd(s, i + 1) + 1)
  ELSE JsonFail(i)

\* the document is the object o or the array l, and nothing but whitespace follows
JsonDocument(s, o, l) ==
  IF o.ok /\ SpaceRunEnd(s, o.next) = Len(s) THEN [ok |-> TRUE, kind |-> "dict", val |-> o.val]
  ELSE IF l.ok /\ SpaceRunEnd(s, l.next) = Len(s) THEN [ok |-> TRUE, kind |-> "list", val |-> l.val]
  ELSE [ok |-> FALSE, kind |-> "error", val |-> <<>>]

JsonDocumentAt(s, b) == JsonDocument(s, JsonObject(s, b), JsonArray(s, b))

\* json.loads(s): [ok, kind, val]
json_loads(s) == JsonDocumentAt(s, SpaceRunEnd(s, 1) + 1)

\* dict.get(key, default) on a parsed object (the last pair of a key wins)
DictGet(pairs, key, default) ==
  LET at == {n \in 1..Len(pairs) : pairs[n][1] = key}
  IN  IF at = {} THEN default ELSE pairs[Greatest(at)][2]

\* data.get('title', data.get('name', ''))
TitleOrName(pairs) == DictGet(pairs, <<"t","i","t","l","e">>, DictGet(pairs, <<"n","a","m","e">>, <<>>))

\* the structured-data branch of _extract_device_title, data what json.loads gave
TitleFromJson(data) ==
  IF data.ok /\ data.kind = "dict" THEN TitleOrName(data.val)
  ELSE IF data.ok /\ data.kind = "list" /\ Len(data.val) > 0 THEN TitleOrName(data.val[1])
  ELSE <<>>

\* the patterns of _extract_device_title with "Device:" tried before "- .. (URL:"
TitleFromPatternsLabelFirst(device_result, dash, label) ==
  IF label # {} THEN DeviceLabelMatch(device_result, Least(label))[2]
  ELSE IF dash # {}
  THEN Strip(SubSeq(device_result, Least(dash) + 1,
                    TitleUrlParen(device_result, Least(dash)) - 1))
  ELSE IF StartsWithAt(device_result, 1, <<"{">>) \/ StartsWithAt(device_result, 1, <<"[">>)
  THEN TitleFromJson(json_loads(device_result))
  ELSE <<>>

\* _extract_device_title, dash and label the positions where its two patterns match
TitleFromPatterns(device_result, dash, label) ==
  IF dash # {}
  THEN Strip(SubSeq(device_result, Least(dash) + 1,
                    TitleUrlParen(device_result, Least(dash)) - 1))
  ELSE IF label # {} THEN DeviceLabelMatch(device_result, Least(label))[2]
  ELSE IF StartsWithAt(device_result, 1, <<"{">>) \/ StartsWithAt(device_result, 1, <<"[">>)
  THEN TitleFromJson(json_loads(device_result))
  ELSE <<>>

\* _extract_device_title(device_result)
extract_device_title(device_result) ==
  TitleFromPatterns(device_result,
                    {i \in 1..Len(device_result) : TitleUrlParen(device_result, i) > 0},
                    {i \in 1..Len(device_result) : DeviceLabelMatch(device_result, i)[1]})

(* ---------------------- graph state (state.py) ------------------------ *)

\* state.get(key, default)
Get(state, key, default) == IF key \in DOMAIN state THEN state[key] ELSE default

\* HumanMessage(content=...), AIMessage(content=...)
HumanMessage(content) == [type |-> "human", content |-> content]
AIMessage(content) == [type |-> "ai", content |-> content]

\* the add_messages reducer of AgentState.messages: the messages handed in carry
\* no id, so each is given a fresh one and is appended
add_messages(left, right) == left \o right

\* an update that takes the place of the channels instead of being merged
UpdateReplacing(state, update) ==
  [k \in DOMAIN update \cup {"messages"} |->
     IF k = "messages" THEN add_messages(Get(state, "messages", <<>>), Get(update, k, <<>>))
     ELSE update[k]]

\* a partial update merged into the channels: messages through its reducer,
\* every other key overwritten, keys the update does not name kept
Update(state, update) ==
  [k \in DOMAIN state \cup DOMAIN update |->
     IF k \notin DOMAIN update THEN state[k]
     ELSE IF k = "messages" THEN add_messages(Get(state, "messages", <<>>), update[k])
     ELSE update[k]]

(* ------------------------- literals of graph.py ----------------------- *)

MsgPleaseAsk == <<"P","l","e","a","s","e"," ","a","s","k"," ","a"," ","r","e","p","a","i","r"," ","q","u","e","s","t","i","o","n",".">>
MsgNoInfo == <<"I"," ","c","o","u","l","d","n","'","t"," ","f","i","n","d"," ","a","n","y"," ","i","n","f","o","r","m","a","t","i","o","n"," ","a","b","o","u","t"," ","t","h","a","t","."," ","C","o","u","l","d"," ","y","o","u"," ","t","r","y"," ","r","e","p","h","r","a","s","i","n","g"," ","y","o","u","r"," ","q","u","e","s","t","i","o","n","?">>
MsgUnableToFormat == <<"U","n","a","b","l","e"," ","t","o"," ","f","o","r","m","a","t"," ","r","e","s","p","o","n","s","e",".">>
MsgSorry == <<"S","o","r","r","y",","," ","I"," ","c","o","u","l","d","n","'","t"," ","p","r","o","c","e","s","s"," ","t","h","a","t"," ","r","e","q","u","e","s","t",".">>
MsgErrorFormatting == <<"E","r","r","o","r"," ","f","o","r","m","a","t","t","i","n","g"," ","r","e","s","p","o","n","s","e",":"," ">>
MsgRawResults == <<"\n","\n","R","a","w"," ","r","e","s","u","l","t","s",":","\n">>
LabelDeviceSearch == <<"i","F","i","x","i","t"," ","S","e","a","r","c","h",":","\n">>
LabelGuidesList == <<"A","v","a","i","l","a","b","l","e"," ","G","u","i","d","e","s",":","\n">>
LabelGuideDetail == <<"G","u","i","d","e"," ","D","e","t","a","i","l","s",":","\n">>
LabelNote == <<"N","o","t","e",":"," ">>
LabelWeb == <<"W","e","b"," ","S","e","a","r","c","h"," ","(","u","n","o","f","f","i","c","i","a","l"," ","s","o","u","r","c","e","s",")",":","\n">>
ErrDeviceSearch == <<"D","e","v","i","c","e"," ","s","e","a","r","c","h"," ","e","r","r","o","r",":"," ">>
ErrGuidesList == <<"G","u","i","d","e","s"," ","l","i","s","t"," ","e","r","r","o","r",":"," ">>
ErrGuideDetail == <<"G","u","i","d","e"," ","d","e","t","a","i","l"," ","e","r","r","o","r",":"," ">>
ErrWebSearch == <<"W","e","b"," ","s","e","a","r","c","h"," ","e","r","r","o","r",":"," ">>

\* the f-string of format_markdown around {user_query} and {combined_context};
\* the persona sentence and the nine numbered instructions are cut to their
\* first words, so lengths are those of this shortened template
PromptHead == <<"Y","o","u"," ","a","r","e"," ","a"," ","f","r","i","e","n","d","l","y",","," ","h","e","l","p","f","u","l"," ","r","e","p","a","i","r"," ","a","s","s","i","s","t","a","n","t","\n","\n","U","s","e","r"," ","a","s","k","e","d",":"," ">>
PromptMid == <<"\n","\n","T","o","o","l"," ","R","e","s","u","l","t","s",":","\n">>
PromptTail == <<"\n","\n","I","n","s","t","r","u","c","t","i","o","n","s"," ","f","o","r"," ","y","o","u","r"," ","r","e","s","p","o","n","s","e",":">>

(* ------------------------------ nodes --------------------------------- *)

\* NODE 1
normalize_input(state) ==
  LET messages == state["messages"]
      humans == {i \in 1..Len(messages) : messages[i].type = "human"}
      user_query == messages[Greatest(humans)].content
  IN  IF humans # {}
      THEN [user_query |-> user_query, normalized_query |-> Strip(Lower(user_query))]
      ELSE [user_query |-> <<>>, normalized_query |-> <<>>,
            messages |-> <<AIMessage(MsgPleaseAsk)>>]

\* the outcome of tool.invoke(...): a returned text or a raised exception
Returned(text) == [ok |-> TRUE, val |-> text]
Raised(text) == [ok |-> FALSE, val |-> text]

\* device_title as ifixit_search holds it after step 1
DeviceTitleOf(find) == IF find.ok THEN extract_device_title(find.val) ELSE None

\* guide_id as ifixit_search holds it in step 3, <<>> where step 3 is not reached
GuideIdOf(guides, normalized_query) ==
  IF guides.ok THEN extract_guide_id(guides.val, normalized_query) ELSE <<>>

\* step 1 of ifixit_search: the entry it adds
DeviceStep(find) ==
  IF find.ok THEN <<[type |-> "device_search", content |-> find.val]>>
  ELSE <<[type |-> "error", content |-> ErrDeviceSearch \o find.val]>>

\* step 3 of ifixit_search: the entries it adds
GuideDetailStep(detail, guide_id) ==
  IF ~Truthy(guide_id) THEN <<>>
  ELSE IF detail.ok THEN <<[type |-> "guide_detail", content |-> detail.val]>>
  ELSE <<[type |-> "error", content |-> ErrGuideDetail \o detail.val]>>

\* steps 2 and 3 without the test of device_title
GuidesStepUntestedTitle(guides, detail, device_title, guide_id) ==
  IF guides.ok
  THEN <<[type |-> "guides_list", content |-> guides.val]>> \o GuideDetailStep(detail, guide_id)
  ELSE <<[type |-> "error", content |-> ErrGuidesList \o guides.val]>>

\* steps 2 and 3 of ifixit_search: the entries they add
GuidesStep(guides, detail, device_title, guide_id) ==
  IF ~Truthy(device_title) THEN <<>>
  ELSE IF guides.ok
  THEN <<[type |-> "guides_list", content |-> guides.val]>> \o GuideDetailStep(detail, guide_id)
  ELSE <<[type |-> "error", content |-> ErrGuidesList \o guides.val]>>

\* ifixit_search with the values of its locals device_title and guide_id
ifixit_search_with(state, find, guides, detail, device_title, guide_id) ==
  IF ~Truthy(Get(state, "user_query", <<>>))
  THEN [ifixit_results |-> <<>>, ifixit_found |-> FALSE]
  ELSE [ifixit_results |-> DeviceStep(find) \o GuidesStep(guides, detail, device_title, guide_id),
        device_title |-> device_title]

\* NODE 2; find, guides and detail are the outcomes of find_device, list_guides
\* and get_guide, used only where the code makes the call
ifixit_search(state, find, guides, detail) ==
  ifixit_search_with(state, find, guides, detail, DeviceTitleOf(find),
                     GuideIdOf(guides, Get(state, "normalized_query", <<>>)))

\* ifixit_search without the test of device_title before step 2
ifixit_calls_untested_title(state, device_title, guide_id) ==
  IF ~Truthy(Get(state, "user_query", <<>>)) THEN <<>>
  ELSE <<"find_device", "list_guides">> \o (IF Truthy(guide_id) THEN <<"get_guide">> ELSE <<>>)

\* the directory calls ifixit_search makes, in order
ifixit_calls_with(state, device_title, guide_id) ==
  IF ~Truthy(Get(state, "user_query", <<>>)) THEN <<>>
  ELSE <<"find_device">>
       \o (IF ~Truthy(device_title) THEN <<>>
           ELSE <<"list_guides">> \o (IF Truthy(guide_id) THEN <<"get_guide">> ELSE <<>>))

ifixit_calls(state, find, guides) ==
  ifixit_calls_with(state, DeviceTitleOf(find),
                    GuideIdOf(guides, Get(state, "normalized_query", <<>>)))

\* has_useful_result of route_results for one entry
has_useful_result(result) ==
  LET content == Lower(result.content)
  IN  /\ \/ /\ Contains(content, <<"f","o","u","n","d"," ","d","e","v","i","c","e","s",":">>) \/ Contains(content, <<"f","o","u","n","d"," ","g","u","i","d","e","s",":">>)
            /\ Contains(result.content, <<"-">>)
         \/ Contains(content, <<"[","g","u","i","d","e","]">>) /\ Contains(content, <<"u","r","l",":">>)
         \/ Contains(content, <<"i","f","i","x","i","t",".","c","o","m">>) /\ Contains(content, <<"u","r","l",":">>)
      /\ ~Contains(content, <<"n","o"," ","r","e","s","u","l","t","s"," ","f","o","u","n","d">>)
      /\ ~Contains(content, <<"n","o"," ","d","e","v","i","c","e","s"," ","f","o","u","n","d">>)
      /\ result.type # "error"

\* route_results deciding on the last entry alone
route_results_last_entry(state) ==
  LET ifixit_results == Get(state, "ifixit_results", <<>>)
  IN  [ifixit_found |-> /\ ifixit_results # <<>>
                        /\ has_useful_result(ifixit_results[Len(ifixit_results)])]

\* route_results keeping an ifixit_found that is already TRUE
route_results_sticky(state) ==
  LET ifixit_results == Get(state, "ifixit_results", <<>>)
  IN  [ifixit_found |-> \/ Get(state, "ifixit_found", FALSE)
                        \/ \E n \in 1..Len(ifixit_results) : has_useful_result(ifixit_results[n])]

\* NODE 3
route_results(state) ==
  LET ifixit_results == Get(state, "ifixit_results", <<>>)
  IN  [ifixit_found |-> \E n \in 1..Len(ifixit_results) : has_useful_result(ifixit_results[n])]

\* web_search_fallback without the test of ifixit_found
web_search_called_unrouted(state) == Truthy(Get(state, "user_query", <<>>))

\* whether web_search_fallback calls web_search
web_search_called(state) ==
  ~(Get(state, "ifixit_found", FALSE) \/ ~Truthy(Get(state, "user_query", <<>>)))

\* NODE 4; web is the outcome of web_search
web_search_fallback(state, web) ==
  IF ~web_search_called(state) THEN [web_results |-> <<>>]
  ELSE IF web.ok THEN [web_results |-> <<[type |-> "web_search", content |-> web.val]>>]
  ELSE [web_results |-> <<[type |-> "error", content |-> ErrWebSearch \o web.val]>>]

\* the context_parts manage_context appends for the iFixit results, in order
RECURSIVE IfixitParts(_, _)
IfixitParts(results, ifixit_found) ==
  IF results = <<>> THEN <<>>
  ELSE LET result == Head(results)
           part == IF result.type = "device_search" THEN <<LabelDeviceSearch \o result.content>>
                   ELSE IF result.type = "guides_list" THEN <<LabelGuidesList \o result.content>>
                   ELSE IF result.type = "guide_detail" THEN <<LabelGuideDetail \o result.content>>
                   ELSE IF result.type = "error" /\ ~ifixit_found THEN <<LabelNote \o result.content>>
                   ELSE <<>>
       IN  part \o IfixitParts(Tail(results), ifixit_found)

\* the context_parts manage_context appends for the web results
WebParts(results, ifixit_found) ==
  IF ifixit_found THEN <<>>
  ELSE [n \in 1..Len(results) |-> LabelWeb \o results[n].content]

\* context_parts of manage_context
context_parts(state) ==
  IfixitParts(Get(state, "ifixit_results", <<>>), Get(state, "ifixit_found", FALSE))
  \o WebParts(Get(state, "web_results", <<>>), Get(state, "ifixit_found", FALSE))

\* manage_context that keeps the context already in the state as a first part
manage_context_accumulating(state) ==
  [combined_context |->
     Join((IF Get(state, "combined_context", <<>>) = <<>> THEN <<>>
           ELSE <<Get(state, "combined_context", <<>>)>>) \o context_parts(state),
          <<"\n","\n">>),
   has_results |-> Len(context_parts(state)) > 0]

\* manage_context taking a single section for no result
manage_context_needs_two(state) ==
  [combined_context |-> Join(context_parts(state), <<"\n","\n">>),
   has_results |-> Len(context_parts(state)) > 1]

\* NODE 5
manage_context(state) ==
  [combined_context |-> Join(context_parts(state), <<"\n","\n">>),
   has_results |-> Len(context_parts(state)) > 0]

\* NODE 6
format_markdown(state) ==
  LET user_query == Get(state, "user_query", <<>>)
      combined_context == Get(state, "combined_context", <<>>)
      format_prompt == PromptHead \o user_query \o PromptMid \o combined_context \o PromptTail
  IN  IF ~Get(state, "has_results", FALSE)
      THEN [formatted_response |-> MsgNoInfo, prompt_tokens |-> 0]
      ELSE [format_prompt |-> format_prompt, prompt_tokens |-> Len(format_prompt) \div 4]

\* NODE 7 when format_prompt is empty: no model call
stream_response_no_prompt == [formatted_response |-> MsgUnableToFormat, completion_tokens |-> 0]

\* NODE 7 counting the characters of the reply as its tokens
stream_response_done_chars(full_response) ==
  [formatted_response |-> full_response, completion_tokens |-> Len(full_response)]

\* NODE 7 when the stream ends normally
stream_response_done(full_response) ==
  [formatted_response |-> full_response, completion_tokens |-> Len(full_response) \div 4]

\* the except clause of stream_response without the raw results
stream_response_failed_no_context(state, str_e) ==
  [formatted_response |-> MsgErrorFormatting \o str_e, completion_tokens |-> 0]

\* NODE 7 when _stream_with_retry raises e; str_e is str(e)
stream_response_failed(state, str_e) ==
  [formatted_response |->
     MsgErrorFormatting \o str_e \o MsgRawResults \o Get(state, "combined_context", <<>>),
   completion_tokens |-> 0]

\* total_tokens of usage_analytics counting the prompt alone
usage_total_prompt_only(state) == Get(state, "prompt_tokens", 0)

\* NODE 8: total_tokens, and whether track_token_usage is called
usage_total(state) == Get(state, "prompt_tokens", 0) + Get(state, "completion_tokens", 0)
usage_tracked(state) == Truthy(Get(state, "user_id", None)) /\ usage_total(state) > 0
usage_analytics(state) == [total_tokens |-> usage_total(state)]

\* checkpoint_save that appends the fixed apology whatever the reply is
checkpoint_save_always_sorry(state) == [messages |-> <<AIMessage(MsgSorry)>>]

\* checkpoint_save without the fallback for an empty reply
checkpoint_save_no_fallback(state) ==
  [messages |-> <<AIMessage(Get(state, "formatted_response", <<>>))>>]

\* NODE 9
checkpoint_save(state) ==
  LET formatted_response == Get(state, "formatted_response", <<>>)
  IN  IF formatted_response # <<>>
      THEN [messages |-> <<AIMessage(formatted_response)>>]
      ELSE [messages |-> <<AIMessage(MsgSorry)>>]

(* ------------------ _stream_with_retry (graph.py) --------------------- *)

max_retries == 3
base_delay == 2

\* 2 ** n
RECURSIVE Pow2(_)
Pow2(n) == IF n = 0 THEN 1 ELSE 2 * Pow2(n - 1)

\* the except clause without the test of the text
is_rate_limit_any_message(e) == e.class = "ChatGoogleGenerativeAIError"

\* the except clause of _stream_with_retry takes e: a ChatGoogleGenerativeAIError
\* whose text holds RESOURCE_EXHAUSTED or 429
is_rate_limit(e) ==
  /\ e.class = "ChatGoogleGenerativeAIError"
  /\ Contains(e.msg, <<"R","E","S","O","U","R","C","E","_","E","X","H","A","U","S","T","E","D">>) \/ Contains(e.msg, <<"4","2","9">>)

\* the retry test with the cap off by one
retries_past_cap(e, attempt) == is_rate_limit(e) /\ ~(attempt > max_retries)

\* whether _stream_with_retry sleeps and starts the stream again after e
retries(e, attempt) == is_rate_limit(e) /\ ~(attempt >= max_retries)

\* delay = base_delay * (2 ** attempt)
backoff_delay(attempt) == base_delay * Pow2(attempt)

(* ------------------- the services the pipeline calls ------------------ *)

\* what find_device can hand back (tools_ifixit.py: _cleanup_search_results),
\* or an exception out of find_device.invoke
FoundDevicesText == <<"F","o","u","n","d"," ","d","e","v","i","c","e","s",":","\n","-"," ","P","S","5"," ","(","U","R","L",":"," ","h","t","t","p","s",":","/","/","w","w","w",".","i","f","i","x","i","t",".","c","o","m","/","D","e","v","i","c","e","/","P","S","5",")">>
NoResultsText == <<"N","o"," ","r","e","s","u","l","t","s"," ","f","o","u","n","d","."," ","T","r","y"," ","a"," ","d","i","f","f","e","r","e","n","t"," ","s","e","a","r","c","h"," ","t","e","r","m",".">>
\* find_device's own except clause hands the failure back as text
SearchErrorText == <<"E","r","r","o","r"," ","s","e","a","r","c","h","i","n","g"," ","i","F","i","x","i","t",":"," ","t","i","m","e","d"," ","o","u","t">>
FindDeviceOutcomes ==
  {Returned(FoundDevicesText), Returned(NoResultsText), Returned(SearchErrorText),
   Raised(<<"t","i","m","e","d"," ","o","u","t">>)}

\* what list_guides can hand back (_cleanup_guides_list), or an exception
GuidesListText == <<"A","v","a","i","l","a","b","l","e"," ","r","e","p","a","i","r"," ","g","u","i","d","e","s",":","\n","-"," ","[","1","0","1","]"," ","B","a","t","t","e","r","y"," ","R","e","p","l","a","c","e","m","e","n","t"," ","(","D","i","f","f","i","c","u","l","t","y",":"," ","E","a","s","y",")","\n","-"," ","[","1","0","2","]"," ","S","c","r","e","e","n"," ","R","e","p","l","a","c","e","m","e","n","t"," ","(","D","i","f","f","i","c","u","l","t","y",":"," ","M","o","d","e","r","a","t","e",")">>
NoGuidesText == <<"N","o"," ","r","e","p","a","i","r"," ","g","u","i","d","e","s"," ","f","o","u","n","d"," ","f","o","r"," ","t","h","i","s"," ","d","e","v","i","c","e",".">>
\* list_guides's own except clause hands the failure back as text
GuidesErrorText == <<"E","r","r","o","r"," ","f","e","t","c","h","i","n","g"," ","g","u","i","d","e","s",":"," ","t","i","m","e","d"," ","o","u","t">>
ListGuidesOutcomes ==
  {Returned(GuidesListText), Returned(NoGuidesText), Returned(GuidesErrorText),
   Raised(<<"t","i","m","e","d"," ","o","u","t">>)}

\* what get_guide can hand back for guide_id (_cleanup_guide_details on the
\* guide of that id), or an exception
GuideDetailText(guide_id) ==
  <<"*","*","G","u","i","d","e"," ">> \o guide_id
  \o <<"*","*","\n","D","i","f","f","i","c","u","l","t","y",":"," ","M","o","d","e","r","a","t","e"," ","|"," ","T","i","m","e",":"," ","1"," ","h","o","u","r","\n","\n","N","o"," ","s","t","e","p","s"," ","a","v","a","i","l","a","b","l","e",".">>
\* get_guide's own except clause hands the failure back as text
GuideErrorText == <<"E","r","r","o","r"," ","f","e","t","c","h","i","n","g"," ","g","u","i","d","e",":"," ","t","i","m","e","d"," ","o","u","t">>
GetGuideOutcomes(guide_id) ==
  {Returned(GuideDetailText(guide_id)), Returned(GuideErrorText),
   Raised(<<"t","i","m","e","d"," ","o","u","t">>)}

\* what web_search can hand back (tools_search.py), or an exception
WebResultText == <<"*","*","W","e","b"," ","S","e","a","r","c","h"," ","R","e","s","u","l","t",":","*","*","\n","\n","R","e","s","e","a","t"," ","t","h","e"," ","c","a","b","l","e",".","\n","\n">>
\* _search_duckduckgo when the answer's status is not 200
WebUnavailableText(query) ==
  <<"U","n","a","b","l","e"," ","t","o"," ","p","e","r","f","o","r","m"," ","w","e","b"," ","s","e","a","r","c","h"," ","a","t"," ","t","h","i","s"," ","t","i","m","e","."," ","T","r","y"," ","s","e","a","r","c","h","i","n","g"," ","f","o","r"," ","'">> \o query \o <<"'"," ","m","a","n","u","a","l","l","y",".">>
WebSearchOutcomes(query) ==
  {Returned(WebResultText), Returned(WebUnavailableText(query)),
   Raised(<<"t","i","m","e","d"," ","o","u","t">>)}

\* chunk.content of the chunks model.astream yields
ChunkContents == {<<>>, <<"O","h"," ","n","o","!"," ">>, <<"T","r","y"," ","t","h","i","s",".">>}

\* the exceptions model.astream raises
StreamErrors ==
  {[class |-> "ChatGoogleGenerativeAIError", msg |-> <<"4","2","9"," ","q","u","o","t","a">>],
   [class |-> "ChatGoogleGenerativeAIError", msg |-> <<"R","E","S","O","U","R","C","E","_","E","X","H","A","U","S","T","E","D">>],
   [class |-> "ChatGoogleGenerativeAIError", msg |-> <<"5","0","0"," ","i","n","t","e","r","n","a","l">>],
   [class |-> "TimeoutError", msg |-> <<"4","2","9"," ","t","i","m","e","d"," ","o","u","t">>]}

\* request.message of the chat endpoint
Messages == {<<>>, <<"P","S","5"," ","S","c","r","e","e","n"," ">>}

\* user.id of the authenticated users
Users == {"u1"}

\* the requests the server handles, one after the other
Requests == {"r1"}

\* turns handled in one run
MaxTurns == 1

\* chunks the model stream yields in one run
MaxChunks == 2

\* exceptions the model stream raises in one run
MaxStreamErrors == 5

\* calls to a table or a tool that raise in one run
MaxFaults == 1

\* the same for the runs that follow one thread over several turns
ThreadTurns == 2

ThreadChunks == 1

ThreadStreamErrors == 1

\* the same for the runs of one turn in which several calls fail
FailFaults == 3

FailChunks == 1

FailStreamErrors == 4

(* --------------------------- the system ------------------------------- *)

VARIABLES
  conversations,  \* the rows of the conversations table, in created_at order
  memory,         \* MemorySaver: thread_id -> the channels last checkpointed
  user_usage,     \* the user_usage table: user_id -> total_tokens
  req,            \* per request: where the handler stands, and its locals
  left            \* what the run may still take: turns, faults (calls to a table
                  \* or a tool that raise), chunks and stream_errors of the model

vars == <<conversations, memory, user_usage, req, left>>

\* the outcomes of one call to a table: it succeeds, or, while the run has
\* failures left, it raises
TableOutcomes == IF left.faults > 0 THEN {TRUE, FALSE} ELSE {TRUE}

\* thread_id without the user in it
thread_id_shared(user_id) == <<"user-">>

\* thread_id = f"user-{user_id}"
thread_id(user_id) == <<"user-", user_id>>

\* the values of user.id are text too
UserIdText(user_id) == <<user_id>>

\* a handler that is not running.  Beside the locals of chat() and of
\* _stream_with_retry (state, full_response, attempt) a record keeps the
\* history of the turn: log, the stages and calls in order; delays, the
\* sleeps taken; attempt_chunks, the chunks of the stream now running;
\* failures and raised, what the stream raised and what reached
\* stream_response; before, the transcript the checkpointer held when the
\* turn began; written and stale, the keys written and the keys read unwritten.
\* endpoint is "chat" or "chat_stream"; for chat_stream, output is
\* event["data"]["output"] of the on_chain_end event at hand, resume where the
\* graph goes on after it, assistant_response the local of generate(); saves
\* lists the roles of the calls to save_message_to_history in the turn
Idle ==
  [pc |-> "idle", user_id |-> "", message |-> <<>>, state |-> <<>>,
   full_response |-> <<>>, attempt |-> 0, attempt_chunks |-> <<>>,
   log |-> <<>>, delays |-> <<>>, before |-> <<>>, written |-> {}, stale |-> {},
   failures |-> <<>>, raised |-> <<>>,
   endpoint |-> "chat", resume |-> "", output |-> <<>>, assistant_response |-> <<>>,
   saves |-> <<>>]

\* get_or_create_conversation_history when the query succeeds
history_of(rows, thread) ==
  LET mine == Ascending({n \in 1..Len(rows) :
                           rows[n].thread_id = thread /\ rows[n].role \in {"user", "assistant"}})
  IN  [n \in 1..Len(mine) |->
         IF rows[mine[n]].role = "user" THEN HumanMessage(rows[mine[n]].content)
         ELSE AIMessage(rows[mine[n]].content)]

\* the channels of a thread as the checkpointer holds them
checkpoint_of(thread) == IF thread \in DOMAIN memory THEN memory[thread] ELSE <<>>

\* the state keys each node reads with state[...] or state.get(...)
NodeReads(node) ==
  CASE node = "normalize_input" -> {"messages"}
    [] node = "ifixit_search" -> {"user_query", "normalized_query"}
    [] node = "route_results" -> {"ifixit_results"}
    [] node = "web_search_fallback" -> {"ifixit_found", "user_query"}
    [] node = "manage_context" -> {"ifixit_results", "web_results", "ifixit_found"}
    [] node = "format_markdown" -> {"user_query", "combined_context", "has_results"}
    [] node = "stream_response" -> {"format_prompt"}
    [] node = "stream_response_except" -> {"combined_context"}
    [] node = "usage_analytics" -> {"user_id", "prompt_tokens", "completion_tokens"}
    [] node = "checkpoint_save" -> {"formatted_response"}

\* the keys among those a node reads that hold a value no input or node of
\* this turn wrote
StaleReads(q, node) ==
  {k \in NodeReads(node) : k \in DOMAIN q.state /\ k \notin q.written}

\* a node returns update: the engine merges it, checkpoints, and goes to next
NodeReturns(r, node, events, update, next) ==
  \E q \in {req[r]}, returned \in {update} :
    \E merged \in {Update(q.state, returned)} :
      /\ req' = [req EXCEPT ![r] =
                   [q EXCEPT !.state = merged,
                             !.pc = IF q.endpoint = "chat_stream" THEN "on_chain_end" ELSE next,
                             !.resume = IF q.endpoint = "chat_stream" THEN next ELSE @,
                             !.output = IF q.endpoint = "chat_stream" THEN returned ELSE @,
                             !.log = q.log \o events,
                             !.written = q.written \cup DOMAIN returned,
                             !.stale = q.stale \cup StaleReads(q, node)]]
      /\ memory' = (thread_id(q.user_id) :> merged) @@ memory

\* the try blocks without those around the accounting call
CaughtSitesButUsage ==
  {"find_device", "list_guides", "get_guide", "web_search", "astream"}

\* the try blocks without the one around model streaming in stream_response
CaughtSitesButStream ==
  {"find_device", "list_guides", "get_guide", "web_search", "track_token_usage"}

\* the calls to outside services that stand in a try block whose except clause
\* takes every Exception
CaughtSites ==
  {"find_device", "list_guides", "get_guide", "web_search", "astream", "track_token_usage"}

\* an exception leaves a node: the graph run ends with it, nothing is merged,
\* and chat(), which has no handler, ends with it too
NodeRaises(r, events) ==
  /\ req' = [req EXCEPT ![r].pc = "raised", ![r].log = @ \o events]
  /\ UNCHANGED memory

\* the nodes in the order of the edges from the entry point to END
StageOrder ==
  <<"normalize_input", "ifixit_search", "route_results", "web_search_fallback",
    "manage_context", "format_markdown", "stream_response", "usage_analytics",
    "checkpoint_save">>

\* the keys of the updates a node can return
StageReturns(node) ==
  CASE node = "normalize_input" -> {"user_query", "normalized_query", "messages"}
    [] node = "ifixit_search" -> {"ifixit_results", "ifixit_found", "device_title"}
    [] node = "route_results" -> {"ifixit_found"}
    [] node = "web_search_fallback" -> {"web_results"}
    [] node = "manage_context" -> {"combined_context", "has_results"}
    [] node = "format_markdown" -> {"formatted_response", "prompt_tokens", "format_prompt"}
    [] node = "stream_response" -> {"formatted_response", "completion_tokens"}
    [] node = "usage_analytics" -> {"total_tokens"}
    [] node = "checkpoint_save" -> {"messages"}

\* chat(): save_message_to_history(user_id, thread_id, "user", request.message);
\* the insert can fail, which save_message_to_history swallows
ChatSaveUser(r, u, message) ==
  /\ req[r].pc = "idle"
  /\ left.turns > 0
  /\ \E saved \in TableOutcomes :
       /\ conversations' =
            IF saved
            THEN Append(conversations, [user_id |-> u, thread_id |-> thread_id(u),
                                        role |-> "user", content |-> message])
            ELSE conversations
       /\ left' = [left EXCEPT !.turns = @ - 1, !.faults = IF saved THEN @ ELSE @ - 1]
  /\ req' = [req EXCEPT ![r] = [Idle EXCEPT !.pc = "get_history", !.user_id = u,
                                            !.message = message, !.saves = <<"user">>]]
  /\ UNCHANGED <<memory, user_usage>>

\* chat(): get_or_create_conversation_history, which gives [] when the query
\* fails, then app_graph.invoke(inputs, config): the inputs are written to the
\* channels of the thread's last checkpoint
ChatInvoke(r) ==
  LET q == req[r]
      thread == thread_id(q.user_id)
  IN  /\ q.pc = "get_history"
      /\ \E fetched \in TableOutcomes :
           LET conversation_history == IF fetched THEN history_of(conversations, thread) ELSE <<>>
               inputs == [messages |-> conversation_history, user_id |-> UserIdText(q.user_id)]
               state == Update(checkpoint_of(thread), inputs)
           IN  /\ req' = [req EXCEPT ![r] =
                            [q EXCEPT !.pc = "normalize_input", !.state = state,
                                      !.before = Get(checkpoint_of(thread), "messages", <<>>),
                                      !.written = DOMAIN inputs]]
               /\ memory' = (thread :> state) @@ memory
               /\ left' = [left EXCEPT !.faults = IF fetched THEN @ ELSE @ - 1]
      /\ UNCHANGED <<conversations, user_usage>>

NormalizeInput(r) ==
  /\ req[r].pc = "normalize_input"
  /\ NodeReturns(r, "normalize_input", <<"normalize_input">>,
                 normalize_input(req[r].state), "ifixit_search")
  /\ UNCHANGED <<conversations, user_usage, left>>

\* how many of the calls made raised, find, guides and detail their outcomes
RaisedAmong(calls, find, guides, detail) ==
  Cardinality({n \in 1..Len(calls) :
                 \/ calls[n] = "find_device" /\ ~find.ok
                 \/ calls[n] = "list_guides" /\ ~guides.ok
                 \/ calls[n] = "get_guide" /\ ~detail.ok})

\* the calls among those made that raised
RaisedSites(calls, find, guides, detail) ==
  {calls[n] : n \in {m \in 1..Len(calls) :
                       \/ calls[m] = "find_device" /\ ~find.ok
                       \/ calls[m] = "list_guides" /\ ~guides.ok
                       \/ calls[m] = "get_guide" /\ ~detail.ok}}

\* ifixit_search has made calls with the outcomes find, guides and detail
IfixitSearchCalls(r, calls, find, guides, detail) ==
  /\ RaisedAmong(calls, find, guides, detail) <= left.faults
  /\ left' = [left EXCEPT !.faults = @ - RaisedAmong(calls, find, guides, detail)]
  /\ IF RaisedSites(calls, find, guides, detail) \subseteq CaughtSites
     THEN \E update \in {ifixit_search(req[r].state, find, guides, detail)} :
            NodeReturns(r, "ifixit_search", <<"ifixit_search">> \o calls, update,
                        "route_results")
     ELSE NodeRaises(r, <<"ifixit_search">> \o calls)

\* ifixit_search when find_device and list_guides answer from Finds and Guides
IfixitSearchFrom(r, Finds, Guides) ==
  /\ req[r].pc = "ifixit_search"
  /\ \E find \in Finds, guides \in Guides :
       \E detail \in GetGuideOutcomes(GuideIdOf(guides, Get(req[r].state, "normalized_query", <<>>))) :
         \E calls \in {ifixit_calls(req[r].state, find, guides)} :
           IfixitSearchCalls(r, calls, find, guides, detail)
  /\ UNCHANGED <<conversations, user_usage>>

IfixitSearch(r) ==
  IfixitSearchFrom(r, FindDeviceOutcomes, ListGuidesOutcomes)

RouteResults(r) ==
  /\ req[r].pc = "route_results"
  /\ NodeReturns(r, "route_results", <<"route_results">>,
                 route_results(req[r].state), "web_search_fallback")
  /\ UNCHANGED <<conversations, user_usage, left>>

WebSearchFallback(r) ==
  /\ req[r].pc = "web_search_fallback"
  /\ \E web \in WebSearchOutcomes(Get(req[r].state, "user_query", <<>>)) :
       /\ web_search_called(req[r].state) /\ ~web.ok => left.faults > 0
       /\ left' = [left EXCEPT !.faults =
                     IF web_search_called(req[r].state) /\ ~web.ok THEN @ - 1 ELSE @]
       /\ IF web_search_called(req[r].state) /\ ~web.ok /\ "web_search" \notin CaughtSites
          THEN NodeRaises(r, <<"web_search_fallback", "web_search">>)
          ELSE NodeReturns(r, "web_search_fallback",
                           <<"web_search_fallback">>
                           \o (IF web_search_called(req[r].state) THEN <<"web_search">> ELSE <<>>),
                           web_search_fallback(req[r].state, web), "manage_context")
  /\ UNCHANGED <<conversations, user_usage>>

ManageContext(r) ==
  /\ req[r].pc = "manage_context"
  /\ NodeReturns(r, "manage_context", <<"manage_context">>,
                 manage_context(req[r].state), "format_markdown")
  /\ UNCHANGED <<conversations, user_usage, left>>

FormatMarkdown(r) ==
  /\ req[r].pc = "format_markdown"
  /\ NodeReturns(r, "format_markdown", <<"format_markdown">>,
                 format_markdown(req[r].state), "stream_response")
  /\ UNCHANGED <<conversations, user_usage, left>>

\* stream_response up to the first model.astream(messages) of _stream_with_retry
StreamResponse(r) ==
  LET q == req[r]
  IN  /\ q.pc = "stream_response"
      /\ IF ~Truthy(Get(q.state, "format_prompt", <<>>))
         THEN NodeReturns(r, "stream_response", <<"stream_response">>,
                          stream_response_no_prompt, "usage_analytics")
         ELSE /\ req' = [req EXCEPT ![r] =
                           [q EXCEPT !.pc = "streaming", !.full_response = <<>>,
                                     !.attempt = 0, !.attempt_chunks = <<>>,
                                     !.log = q.log \o <<"stream_response", "astream">>,
                                     !.stale = q.stale \cup StaleReads(q, "stream_response")]]
              /\ UNCHANGED memory
      /\ UNCHANGED <<conversations, user_usage, left>>

\* the stream yields a chunk: _stream_with_retry passes it on if chunk.content,
\* and stream_response adds chunk.content to full_response; under chat_stream
\* the on_chat_model_stream event adds it to assistant_response
StreamChunk(r) ==
  LET q == req[r]
  IN  /\ q.pc = "streaming"
      /\ left.chunks > 0
      /\ left' = [left EXCEPT !.chunks = @ - 1]
      /\ \E content \in ChunkContents :
           req' = [req EXCEPT ![r] =
                     [q EXCEPT !.full_response =
                                 IF content # <<>> THEN q.full_response \o content
                                 ELSE q.full_response,
                               !.attempt_chunks =
                                 IF content # <<>> THEN q.attempt_chunks \o content
                                 ELSE q.attempt_chunks,
                               !.assistant_response =
                                 IF q.endpoint = "chat_stream" THEN @ \o content ELSE @]]
      /\ UNCHANGED <<conversations, memory, user_usage>>

\* the stream raises e: _stream_with_retry sleeps and starts the stream again,
\* or lets e out to the except clause of stream_response
StreamError(r) ==
  LET q == req[r]
  IN  /\ q.pc = "streaming"
      /\ left.stream_errors > 0
      /\ left' = [left EXCEPT !.stream_errors = @ - 1]
      /\ \E e \in StreamErrors :
           IF retries(e, q.attempt)
           THEN /\ req' = [req EXCEPT ![r] =
                             [q EXCEPT !.attempt = q.attempt + 1, !.attempt_chunks = <<>>,
                                       !.failures = Append(q.failures, e),
                                       !.delays = Append(q.delays, backoff_delay(q.attempt)),
                                       !.log = q.log \o <<"sleep", "astream">>]]
                /\ UNCHANGED memory
           ELSE IF "astream" \notin CaughtSites
           THEN /\ req' = [req EXCEPT ![r] =
                             [q EXCEPT !.pc = "raised", !.failures = Append(q.failures, e)]]
                /\ UNCHANGED memory
           ELSE LET q2 == [q EXCEPT !.raised = <<e>>, !.failures = Append(q.failures, e),
                                    !.stale = q.stale \cup StaleReads(q, "stream_response_except")]
                    merged == Update(q.state, stream_response_failed(q.state, e.msg))
                IN  /\ req' = [req EXCEPT ![r] =
                                 [q2 EXCEPT !.state = merged,
                                            !.pc = IF q.endpoint = "chat_stream" THEN "on_chain_end"
                                                   ELSE "usage_analytics",
                                            !.resume = IF q.endpoint = "chat_stream"
                                                       THEN "usage_analytics" ELSE @,
                                            !.output = IF q.endpoint = "chat_stream"
                                                       THEN stream_response_failed(q.state, e.msg)
                                                       ELSE @,
                                            !.written = q.written \cup {"formatted_response", "completion_tokens"}]]
                    /\ memory' = (thread_id(q.user_id) :> merged) @@ memory
      /\ UNCHANGED <<conversations, user_usage>>

\* the stream ends: _stream_with_retry returns and stream_response with it
StreamDone(r) ==
  /\ req[r].pc = "streaming"
  /\ NodeReturns(r, "stream_response", <<"stream_end">>,
                 stream_response_done(req[r].full_response), "usage_analytics")
  /\ UNCHANGED <<conversations, user_usage, left>>

\* track_token_usage(user_id, tokens_used) when the table takes the update
track_token_usage(usage, user_id, tokens_used) ==
  (user_id :> (IF user_id \in DOMAIN usage THEN usage[user_id] + tokens_used ELSE tokens_used))
  @@ usage

\* usage_analytics; the accounting call can fail, which is caught and only logged
UsageAnalytics(r) ==
  LET q == req[r]
  IN  /\ q.pc = "usage_analytics"
      /\ \E stored \in (IF usage_tracked(q.state) THEN TableOutcomes ELSE {TRUE}) :
           /\ user_usage' =
                IF usage_tracked(q.state) /\ stored
                THEN track_token_usage(user_usage, q.user_id, usage_total(q.state))
                ELSE user_usage
           /\ left' = [left EXCEPT !.faults = IF stored THEN @ ELSE @ - 1]
           /\ IF ~stored /\ "track_token_usage" \notin CaughtSites
              THEN NodeRaises(r, <<"usage_analytics", "track_token_usage">>)
              ELSE NodeReturns(r, "usage_analytics",
                               <<"usage_analytics">>
                               \o (IF usage_tracked(q.state) THEN <<"track_token_usage">> ELSE <<>>),
                               usage_analytics(q.state), "checkpoint_save")
      /\ UNCHANGED conversations

CheckpointSave(r) ==
  /\ req[r].pc = "checkpoint_save"
  /\ NodeReturns(r, "checkpoint_save", <<"checkpoint_save">>,
                 checkpoint_save(req[r].state), "graph_end")
  /\ UNCHANGED <<conversations, user_usage, left>>

\* chat(): result["messages"][-1].content, which _normalize_content hands back
\* as it is because it is a str, then
\* save_message_to_history(user_id, thread_id, "assistant", assistant_response)
ChatSaveAssistant(r) ==
  LET q == req[r]
      messages == q.state["messages"]
      assistant_response == messages[Len(messages)].content
  IN  /\ q.pc = "graph_end"
      /\ q.endpoint = "chat"
      /\ \E saved \in TableOutcomes :
           /\ conversations' =
                IF saved
                THEN Append(conversations, [user_id |-> q.user_id, thread_id |-> thread_id(q.user_id),
                                            role |-> "assistant", content |-> assistant_response])
                ELSE conversations
           /\ left' = [left EXCEPT !.faults = IF saved THEN @ ELSE @ - 1]
      /\ req' = [req EXCEPT ![r] = Idle]
      /\ UNCHANGED <<memory, user_usage>>

\* chat_stream(): save_message_to_history(user_id, thread_id, "user",
\* request.message) before generate() runs
ChatStreamSaveUser(r, u, message) ==
  /\ req[r].pc = "idle"
  /\ left.turns > 0
  /\ \E saved \in TableOutcomes :
       /\ conversations' =
            IF saved
            THEN Append(conversations, [user_id |-> u, thread_id |-> thread_id(u),
                                        role |-> "user", content |-> message])
            ELSE conversations
       /\ left' = [left EXCEPT !.turns = @ - 1, !.faults = IF saved THEN @ ELSE @ - 1]
  /\ req' = [req EXCEPT ![r] = [Idle EXCEPT !.pc = "get_history", !.user_id = u,
                                            !.message = message, !.saves = <<"user">>,
                                            !.endpoint = "chat_stream"]]
  /\ UNCHANGED <<memory, user_usage>>

\* generate() of chat_stream takes the on_chain_end event of a node: when its
\* output has messages that end with an AIMessage, assistant_response is set
\* from it unless tokens were collected, and the assistant message is saved
ChatStreamChainEnd(r) ==
  LET q == req[r]
      messages == Get(q.output, "messages", <<>>)
  IN  /\ q.pc = "on_chain_end"
      /\ IF messages # <<>> /\ messages[Len(messages)].type = "ai"
         THEN \E saved \in TableOutcomes,
                 assistant_response \in {IF q.assistant_response = <<>>
                                         THEN messages[Len(messages)].content
                                         ELSE q.assistant_response} :
                /\ conversations' =
                     IF saved
                     THEN Append(conversations,
                                 [user_id |-> q.user_id, thread_id |-> thread_id(q.user_id),
                                  role |-> "assistant", content |-> assistant_response])
                     ELSE conversations
                /\ left' = [left EXCEPT !.faults = IF saved THEN @ ELSE @ - 1]
                /\ req' = [req EXCEPT ![r] =
                             [q EXCEPT !.pc = q.resume, !.resume = "", !.output = <<>>,
                                       !.assistant_response = assistant_response,
                                       !.saves = Append(q.saves, "assistant")]]
         ELSE /\ req' = [req EXCEPT ![r] = [q EXCEPT !.pc = q.resume, !.resume = "",
                                                      !.output = <<>>]]
              /\ UNCHANGED <<conversations, left>>
      /\ UNCHANGED <<memory, user_usage>>

\* app_graph.astream_events is exhausted: generate() ends
ChatStreamEnd(r) ==
  /\ req[r].pc = "graph_end"
  /\ req[r].endpoint = "chat_stream"
  /\ req' = [req EXCEPT ![r] = Idle]
  /\ UNCHANGED <<conversations, memory, user_usage, left>>

Init ==
  /\ conversations = <<>>
  /\ memory = <<>>
  /\ user_usage = <<>>
  /\ req = [r \in Requests |-> Idle]
  /\ left = [turns |-> MaxTurns, faults |-> MaxFaults, chunks |-> MaxChunks,
             stream_errors |-> MaxStreamErrors]

Next ==
  \E r \in Requests :
    \/ \E u \in Users, message \in Messages : ChatSaveUser(r, u, message)
    \/ ChatInvoke(r)
    \/ NormalizeInput(r)
    \/ IfixitSearch(r)
    \/ RouteResults(r)
    \/ WebSearchFallback(r)
    \/ ManageContext(r)
    \/ FormatMarkdown(r)
    \/ StreamResponse(r)
    \/ StreamChunk(r)
    \/ StreamError(r)
    \/ StreamDone(r)
    \/ UsageAnalytics(r)
    \/ CheckpointSave(r)
    \/ ChatSaveAssistant(r)

Spec == Init /\ [][Next]_vars

\* the same program over the turns of one thread
InitThread ==
  /\ conversations = <<>>
  /\ memory = <<>>
  /\ user_usage = <<>>
  /\ req = [r \in Requests |-> Idle]
  /\ left = [turns |-> ThreadTurns, faults |-> 0, chunks |-> ThreadChunks,
             stream_errors |-> ThreadStreamErrors]

SpecThread == InitThread /\ [][Next]_vars

\* one turn in which several calls can fail, under the scheduling of the
\* code: a handler that can take a step takes one (the nodes are sequential
\* code) and a stream of the model yields, raises or ends
InitFail ==
  /\ conversations = <<>>
  /\ memory = <<>>
  /\ user_usage = <<>>
  /\ req = [r \in Requests |-> Idle]
  /\ left = [turns |-> 1, faults |-> FailFaults, chunks |-> FailChunks,
             stream_errors |-> FailStreamErrors]

SpecFail == InitFail /\ [][Next]_vars /\ WF_vars(Next)

(* --------------------- both endpoints of the chat ---------------------- *)

\* one turn, taken by chat or by chat_stream
InitEndpoints ==
  /\ conversations = <<>>
  /\ memory = <<>>
  /\ user_usage = <<>>
  /\ req = [r \in Requests |-> Idle]
  /\ left = [turns |-> MaxTurns, faults |-> MaxFaults, chunks |-> ThreadChunks,
             stream_errors |-> ThreadStreamErrors]

NextEndpoints ==
  \/ Next
  \/ \E r \in Requests :
       \/ \E u \in Users, message \in Messages : ChatStreamSaveUser(r, u, message)
       \/ ChatStreamChainEnd(r)
       \/ ChatStreamEnd(r)

SpecEndpoints == InitEndpoints /\ [][NextEndpoints]_vars

(* ---------------------- clearing the chat history ---------------------- *)

\* the calls of clear_chat_history in a run
MaxClears == 1

\* clear_chat_history: delete the rows of the caller's thread from the
\* conversations table, and answer success, or, when the delete raises, answer
\* failure; the checkpointer is not touched.  left.cleared remembers the count
\* of turns that were left when the delete last succeeded
ClearChatHistory(u) ==
  /\ left.clears > 0
  /\ \E deleted \in TableOutcomes :
       /\ conversations' =
            IF deleted
            THEN SelectSeq(conversations, LAMBDA row : row.thread_id # thread_id(u))
            ELSE conversations
       /\ left' = [left EXCEPT !.clears = @ - 1,
                               !.faults = IF deleted THEN @ ELSE @ - 1,
                               !.cleared = IF deleted THEN left.turns ELSE @]
  /\ UNCHANGED <<memory, user_usage, req>>

\* the turns of one thread, with a call of clear_chat_history among them
InitClear ==
  /\ conversations = <<>>
  /\ memory = <<>>
  /\ user_usage = <<>>
  /\ req = [r \in Requests |-> Idle]
  /\ left = [turns |-> ThreadTurns, faults |-> 0, chunks |-> ThreadChunks,
             stream_errors |-> ThreadStreamErrors, clears |-> MaxClears, cleared |-> 0]

NextClear ==
  \/ Next
  \/ \E u \in Users : ClearChatHistory(u)

SpecClear == InitClear /\ [][NextClear]_vars

(* ------------------ two requests of one owner at once ------------------ *)

\* chat is a plain def, which the server runs in a thread pool: two requests
\* of a user are handled at once, each from its save of the user message to
\* the end of normalize_input
InitRace ==
  /\ conversations = <<>>
  /\ memory = <<>>
  /\ user_usage = <<>>
  /\ req = [r \in {"r1", "r2"} |-> Idle]
  /\ left = [turns |-> ThreadTurns, faults |-> MaxFaults, chunks |-> 0, stream_errors |-> 0]

NextRace ==
  \E r \in {"r1", "r2"} :
    \/ \E u \in Users, message \in Messages : ChatSaveUser(r, u, message)
    \/ ChatInvoke(r)
    \/ NormalizeInput(r)

SpecRace == InitRace /\ [][NextRace]_vars

(* ------------------ calls of track_token_usage at once ------------------ *)

\* the calls of track_token_usage that are under way at once: usage_analytics
\* of requests that the server handles in its thread pool
MaxCalls == 3

\* tokens_used of a call: usage_analytics calls only with total_tokens > 0
TokensUsed == {1, 2}

\* track_token_usage, first statement: select total_tokens of the user's row
\* and compute new_total from it; an exception ends the call in its except
TrackSelect(c) ==
  /\ req[c].pc = "select"
  /\ \E selected \in TableOutcomes :
       /\ req' = [req EXCEPT ![c] =
                    IF selected
                    THEN [@ EXCEPT !.pc = "upsert",
                                   !.new_total =
                                      IF req[c].user_id \in DOMAIN user_usage
                                      THEN user_usage[req[c].user_id] + req[c].tokens_used
                                      ELSE req[c].tokens_used]
                    ELSE [@ EXCEPT !.pc = "failed"]]
       /\ left' = [left EXCEPT !.faults = IF selected THEN @ ELSE @ - 1]
  /\ UNCHANGED <<conversations, memory, user_usage>>

\* track_token_usage, second statement: upsert the row with new_total
TrackUpsert(c) ==
  /\ req[c].pc = "upsert"
  /\ \E stored \in TableOutcomes :
       /\ user_usage' =
            IF stored THEN (req[c].user_id :> req[c].new_total) @@ user_usage
            ELSE user_usage
       /\ req' = [req EXCEPT ![c].pc = IF stored THEN "done" ELSE "failed"]
       /\ left' = [left EXCEPT !.faults = IF stored THEN @ ELSE @ - 1]
  /\ UNCHANGED <<conversations, memory>>

\* calls for one or two users, each about to select, on a table that may hold
\* a row of u1; left.before keeps the table as it was
InitUsage ==
  /\ conversations = <<>>
  /\ memory = <<>>
  /\ user_usage \in {<<>>, ("u1" :> 5)}
  /\ req \in [1..MaxCalls -> [pc : {"select"}, user_id : {"u1", "u2"},
                              tokens_used : TokensUsed, new_total : {0}]]
  /\ left = [faults |-> MaxFaults, before |-> user_usage]

NextUsage == \E c \in 1..MaxCalls : TrackSelect(c) \/ TrackUpsert(c)

SpecUsage == InitUsage /\ [][NextUsage]_vars

(* ------------------------ turns of two owners ------------------------- *)

\* the turns of the thread specification, each by one of two users
NextOwners ==
  \/ Next
  \/ \E r \in Requests, message \in Messages : ChatSaveUser(r, "u2", message)

SpecOwners == InitThread /\ [][NextOwners]_vars

(* ---------- the stages from routing to context assembly as functions ---- *)

\* outcomes of the three directory calls the runs of the stages are drawn
\* from: the texts above and further texts with and without the words and
\* marks route_results looks for; an exception can carry any text
RouteFindOutcomes ==
  FindDeviceOutcomes
  \cup {Returned(<<"F","o","u","n","d"," ","g","u","i","d","e","s",":","\n","-"," ","[","G","U","I","D","E","]"," ","F","a","n"," ","R","e","p","l","a","c","e","m","e","n","t"," ","(","U","R","L",":"," ","h","t","t","p","s",":","/","/","e","x","a","m","p","l","e",".","o","r","g","/","G","u","i","d","e","/","7",")">>),
        Returned(<<"F","o","u","n","d"," ","d","e","v","i","c","e","s",":"," ","P","S","5"," ","(","U","R","L",":"," ","n","/","a",")">>),
        Returned(<<"F","o","u","n","d"," ","d","e","v","i","c","e","s",":","\n","-"," ","N","o"," ","r","e","s","u","l","t","s"," ","f","o","u","n","d"," ","(","U","R","L",":"," ","h","t","t","p","s",":","/","/","w","w","w",".","i","f","i","x","i","t",".","c","o","m","/",")">>),
        Returned(<<"F","o","u","n","d"," ","d","e","v","i","c","e","s",":","\n","-"," ","P","i","x","e","l">>),
        Returned(<<"D","e","v","i","c","e",":"," ","P","S","5">>),
        Returned(<<"N","o"," ","d","e","v","i","c","e","s"," ","f","o","u","n","d"," ","-"," ","s","e","e"," ","i","f","i","x","i","t",".","c","o","m"," ","U","R","L",":"," ","h","t","t","p","s",":","/","/","w","w","w",".","i","f","i","x","i","t",".","c","o","m","/">>),
        Raised(FoundDevicesText)}
RouteGuidesOutcomes ==
  ListGuidesOutcomes
  \cup {Returned(<<"F","O","U","N","D"," ","G","U","I","D","E","S",":","\n","-"," ","[","7","]"," ","S","c","r","e","e","n"," ","(","U","R","L",":"," ","h","t","t","p","s",":","/","/","w","w","w",".","i","F","i","x","i","t",".","c","o","m","/","G","u","i","d","e","/","7",")">>),
        Raised(<<"F","O","U","N","D"," ","G","U","I","D","E","S",":","\n","-"," ","[","7","]"," ","S","c","r","e","e","n"," ","(","U","R","L",":"," ","h","t","t","p","s",":","/","/","w","w","w",".","i","F","i","x","i","t",".","c","o","m","/","G","u","i","d","e","/","7",")">>),
        Raised(NoResultsText)}
RouteDetailOutcomes(guide_id) ==
  GetGuideOutcomes(guide_id)
  \cup {Returned(<<"F","o","u","n","d"," ","g","u","i","d","e","s",":","\n","-"," ","[","G","U","I","D","E","]"," ","F","a","n"," ","R","e","p","l","a","c","e","m","e","n","t"," ","(","U","R","L",":"," ","h","t","t","p","s",":","/","/","e","x","a","m","p","l","e",".","o","r","g","/","G","u","i","d","e","/","7",")">>)}

\* the users of these runs
RouteUsers == {"u1", "u2"}

\* what the checkpoint of the thread can hold from an earlier turn
RouteLeftovers ==
  {<<>>,
   [ifixit_found |-> TRUE, web_results |-> <<>>],
   [ifixit_found |-> FALSE,
    web_results |-> <<[type |-> "web_search", content |-> WebResultText]>>]}

\* the handler of user u at route_results, after normalize_input and
\* ifixit_search ran on the inputs and gave state with the calls made
AtRouteResults(u, message, state, calls) ==
  [Idle EXCEPT !.pc = "route_results", !.user_id = u, !.message = message,
               !.state = state,
               !.log = <<"normalize_input", "ifixit_search">> \o calls,
               !.written = DOMAIN state \ {"ifixit_found", "web_results"}]

\* s is the state normalize_input left
InitRouteWith(u, message, s, find, guides, detail) ==
  /\ req = [r \in Requests |->
              AtRouteResults(u, message, Update(s, ifixit_search(s, find, guides, detail)),
                             ifixit_calls(s, find, guides))]
  /\ memory = (thread_id(u) :> Update(s, ifixit_search(s, find, guides, detail)))

\* a turn with the message "PS5 Screen " that has reached route_results
InitRoute ==
  /\ conversations = <<>>
  /\ user_usage = <<>>
  /\ left = [turns |-> 0, faults |-> 1, chunks |-> 0, stream_errors |-> 0]
  /\ \E u \in RouteUsers, leftover \in RouteLeftovers, find \in RouteFindOutcomes,
        guides \in RouteGuidesOutcomes :
     \E detail \in RouteDetailOutcomes(GuideIdOf(guides, <<"p","s","5"," ","s","c","r","e","e","n">>)) :
       InitRouteWith(u, <<"P","S","5"," ","S","c","r","e","e","n"," ">>,
                     Update(Update(leftover, [messages |-> <<HumanMessage(<<"P","S","5"," ","S","c","r","e","e","n"," ">>)>>,
                                              user_id |-> UserIdText(u)]),
                            normalize_input(Update(leftover, [messages |-> <<HumanMessage(<<"P","S","5"," ","S","c","r","e","e","n"," ">>)>>,
                                                              user_id |-> UserIdText(u)]))),
                     find, guides, detail)

NextRoute ==
  \E r \in Requests :
    \/ RouteResults(r)
    \/ WebSearchFallback(r)
    \/ ManageContext(r)

SpecRoute == InitRoute /\ [][NextRoute]_vars

(* ------------- the directory lookup on a wider directory -------------- *)

\* a turn that has reached ifixit_search: the message is one of several
\* queries with and without the keywords _extract_guide_id looks for
InitLookup ==
  /\ conversations = <<>>
  /\ user_usage = <<>>
  /\ left = [turns |-> 0, faults |-> 1, chunks |-> 0, stream_errors |-> 0]
  /\ \E u \in Users,
        message \in {<<"P","S","5"," ","G","l","a","s","s"," ">>,
                     <<"P","S","5"," ","S","c","r","e","e","n"," ">>,
                     <<"p","s","5"," ","D","V","D">>,
                     <<"P","S","5"," ","b","a","t","t","e","r","y">>,
                     <<"p","s","5"," ","f","a","n">>,
                     <<"P","S","5"," ","d","i","s","c"," ","s","c","r","e","e","n">>,
                     <<"p","s","5"," ","c","d"," ","b","a","t","t","e","r","y">>} :
       \E inputs \in {[messages |-> <<HumanMessage(message)>>, user_id |-> UserIdText(u)]} :
         \E s \in {Update(inputs, normalize_input(inputs))} :
           /\ req = [r \in Requests |->
                       [Idle EXCEPT !.pc = "ifixit_search", !.user_id = u, !.message = message,
                                    !.state = s, !.log = <<"normalize_input">>,
                                    !.written = DOMAIN s]]
           /\ memory = (thread_id(u) :> s)

\* ifixit_search against a directory that answers find_device with texts of
\* each shape _extract_device_title looks for, list_guides with listings of
\* bracketed and of labelled ids
NextLookup ==
  \E r \in Requests :
    IfixitSearchFrom(r,
      FindDeviceOutcomes
      \cup {Returned(<<"-"," ","P","l","a","y","S","t","a","t","i","o","n"," ","5"," ","(","U","R","L",":"," ","h","t","t","p",":","/","/","x",")">>),
            Returned(<<"D","e","v","i","c","e",":"," ","P","S","5"," ","\n","-"," ","P","i","x","e","l"," ","(","U","R","L",":"," ","u",")">>),
            Returned(<<"D","e","v","i","c","e",":"," "," ","X","b","o","x"," ","O","n","e"," "," ">>),
            Returned(<<"{","\"","t","i","t","l","e","\"",":"," ","\"","P","S","5","\"",","," ","\"","n","a","m","e","\"",":"," ","\"","O","t","h","e","r","\"","}">>),
            Returned(<<"[","{","\"","n","a","m","e","\"",":"," ","\""," ","P","i","x","e","l"," ","\"","}","]">>),
            Returned(<<"{","\"","m","o","d","e","l","\"",":"," ","\"","P","S","5","\"","}">>),
            Returned(<<"N","o","t","h","i","n","g"," ","h","e","r","e">>),
            Returned(<<"-"," "," ","(","U","R","L",":"," ","u",")">>)},
      ListGuidesOutcomes
      \cup {Returned(<<"A","v","a","i","l","a","b","l","e"," ","r","e","p","a","i","r"," ","g","u","i","d","e","s",":","\n","-"," ","[","1","0","1","]"," ","B","a","t","t","e","r","y"," ","R","e","p","l","a","c","e","m","e","n","t"," ","(","D","i","f","f","i","c","u","l","t","y",":"," ","E","a","s","y",")","\n","-"," ","[","1","0","2","]"," ","B","a","c","k"," ","G","l","a","s","s"," ","R","e","p","l","a","c","e","m","e","n","t"," ","(","D","i","f","f","i","c","u","l","t","y",":"," ","M","o","d","e","r","a","t","e",")","\n","-"," ","[","1","0","3","]"," ","D","V","D"," ","L","e","n","s"," ","R","e","p","l","a","c","e","m","e","n","t"," ","(","D","i","f","f","i","c","u","l","t","y",":"," ","M","o","d","e","r","a","t","e",")">>),
            Returned(<<"A","v","a","i","l","a","b","l","e"," ","r","e","p","a","i","r"," ","g","u","i","d","e","s",":","\n","-"," ","[","2","0","1","]"," ","B","a","t","t","e","r","y"," ","R","e","p","l","a","c","e","m","e","n","t"," ","(","D","i","f","f","i","c","u","l","t","y",":"," ","E","a","s","y",")","\n","-"," ","[","2","0","2","]"," ","L","C","D"," ","S","c","r","e","e","n"," ","R","e","p","l","a","c","e","m","e","n","t"," ","(","D","i","f","f","i","c","u","l","t","y",":"," ","M","o","d","e","r","a","t","e",")","\n","-"," ","[","2","0","3","]"," ","D","i","s","c"," ","D","r","i","v","e"," ","R","e","p","l","a","c","e","m","e","n","t"," ","(","D","i","f","f","i","c","u","l","t","y",":"," ","M","o","d","e","r","a","t","e",")">>),
            Returned(<<"I","D",":"," ","3","0","1"," ","S","c","r","e","e","n"," ","R","e","p","l","a","c","e","m","e","n","t","\n","i","d",":"," ","3","0","2"," ","B","a","t","t","e","r","y"," ","R","e","p","l","a","c","e","m","e","n","t">>),
            Returned(<<"A","v","a","i","l","a","b","l","e"," ","r","e","p","a","i","r"," ","g","u","i","d","e","s",":","\n","-"," ","[","4","0","1","]"," ","F","a","n"," ","R","e","p","l","a","c","e","m","e","n","t"," ","(","D","i","f","f","i","c","u","l","t","y",":"," ","E","a","s","y",")">>),
            Returned(<<"S","c","r","e","e","n"," ","g","u","i","d","e","s",":"," ","[","5","0","1","]"," ","F","a","n","\n","[","5","0","2","]"," ","B","a","t","t","e","r","y">>)})

SpecLookup == InitLookup /\ [][NextLookup]_vars

(* ------------------------------ properties ---------------------------- *)

\* the positions of an event in the log of a turn
Positions(log, event) == {n \in 1..Len(log) : log[n] = event}

\* the turn has left the stage stream_response
PastStreaming(q) == q.pc \in {"usage_analytics", "checkpoint_save", "graph_end"}

\* C1: within one turn web_search is called only after ifixit_search and
\* route_results have run, in that order, and only when route_results set
\* ifixit_found to FALSE in this turn; with ifixit_found TRUE there is no call
C1_WebSearchOnlyAfterRouting ==
  \A r \in Requests :
    LET q == req[r]
    IN  /\ \A n \in Positions(q.log, "web_search") :
             /\ \E i \in Positions(q.log, "ifixit_search"), j \in Positions(q.log, "route_results") :
                  i < j /\ j < n
             /\ "ifixit_found" \in q.written
             /\ q.state["ifixit_found"] = FALSE
        /\ ("route_results" \in Range(q.log) /\ q.state["ifixit_found"] = TRUE)
             => Positions(q.log, "web_search") = {}

\* a turn in which the directory gave nothing useful and web_search was called
C1_Witness ==
  \E r \in Requests :
    /\ Positions(req[r].log, "web_search") # {}
    /\ Positions(req[r].log, "find_device") # {}
    /\ req[r].state["ifixit_found"] = FALSE

\* C2: when the stream failed with a rate-limit signal at least once and a
\* later attempt ran to its end, formatted_response is the concatenation of
\* the chunks of that last attempt only
C2_ReplyIsSuccessfulAttemptOnly ==
  \A r \in Requests :
    LET q == req[r]
    IN  (PastStreaming(q) /\ "stream_end" \in Range(q.log) /\ q.attempt >= 1)
          => q.state["formatted_response"] = q.attempt_chunks

\* C3: in every turn that ends with has_results FALSE the model is not
\* invoked, the reply appended to the transcript is the fixed "I couldn't
\* find any information about that..." message, and prompt_tokens,
\* completion_tokens and total_tokens are all zero
C3_NoResultsShortCircuit ==
  \A r \in Requests :
    LET q == req[r]
        s == q.state
    IN  (q.pc = "graph_end" /\ s["has_results"] = FALSE)
          => /\ "astream" \notin Range(q.log)
             /\ s["messages"][Len(s["messages"])].content = MsgNoInfo
             /\ s["prompt_tokens"] = 0
             /\ s["completion_tokens"] = 0
             /\ s["total_tokens"] = 0

\* the fields of AgentState that the stages own
StageOwned ==
  {"user_query", "normalized_query", "ifixit_results", "device_title", "ifixit_found",
   "web_results", "combined_context", "has_results", "format_prompt", "prompt_tokens",
   "formatted_response", "completion_tokens", "total_tokens"}

\* C4: every stage-owned field a stage reads during a turn was written during
\* that turn, never carried over from the checkpoint of an earlier turn
C4_FreshPerTurn ==
  \A r \in Requests : req[r].stale \cap StageOwned = {}

\* C5: the transcript is append-only, and a turn extends what the thread held
\* before it by exactly the user entry of the turn and one assistant entry
C5_OneUserOneAssistantPerTurn ==
  \A r \in Requests :
    LET q == req[r]
        messages == Get(q.state, "messages", <<>>)
        n == Len(q.before)
    IN  /\ q.pc \notin {"idle", "get_history"}
             => Len(messages) >= n /\ SubSeq(messages, 1, n) = q.before
        /\ q.pc = "graph_end"
             => /\ Len(messages) = n + 2
                /\ messages[n + 1] = HumanMessage(q.message)
                /\ messages[n + 2].type = "ai"

\* the last entry of the transcript of a turn
LastMessage(q) == q.state["messages"][Len(q.state["messages"])]

\* C6: after every run that reaches checkpoint_save the last transcript entry
\* is an assistant entry, and when formatted_response is non-empty its
\* content is formatted_response
C6_EndsWithAssistantEntry ==
  \A r \in Requests :
    LET q == req[r]
    IN  q.pc = "graph_end"
          => /\ LastMessage(q).type = "ai"
             /\ q.state["formatted_response"] # <<>>
                  => LastMessage(q).content = q.state["formatted_response"]

\* a run on the normal path: the stream ended and left a reply, which
\* checkpoint_save has appended
C6_Witness ==
  \E r \in Requests :
    /\ req[r].pc = "graph_end"
    /\ "stream_end" \in Range(req[r].log)
    /\ req[r].state["formatted_response"] # <<>>
    /\ LastMessage(req[r]).content = req[r].state["formatted_response"]

\* C7 as stated: at the end of every turn formatted_response is non-empty
C7_ReplyNonEmpty ==
  \A r \in Requests :
    req[r].pc = "graph_end" => req[r].state["formatted_response"] # <<>>

\* C7, amended: at the end of every turn the assistant entry appended is
\* non-empty; formatted_response is non-empty unless the stream ended
\* normally without one non-empty chunk, and then the entry is the fixed
\* "Sorry, I couldn't process that request."
C7_ReplyEntryNonEmpty ==
  \A r \in Requests :
    LET q == req[r]
    IN  q.pc = "graph_end"
          => /\ LastMessage(q).content # <<>>
             /\ q.state["formatted_response"] = <<>>
                  => /\ "stream_end" \in Range(q.log)
                     /\ q.full_response = <<>>
                     /\ LastMessage(q).content = MsgSorry

\* a turn whose stream ended without content: formatted_response is empty
\* and the apology was appended
C7_Witness ==
  \E r \in Requests :
    /\ req[r].pc = "graph_end"
    /\ req[r].state["formatted_response"] = <<>>
    /\ LastMessage(req[r]).content = MsgSorry

\* a rate-limit signal as the specification words it: the text of the failure holds
\* RESOURCE_EXHAUSTED or 429
RateLimitSignal(e) ==
  Contains(e.msg, <<"R","E","S","O","U","R","C","E","_","E","X","H","A","U","S","T","E","D">>) \/ Contains(e.msg, <<"4","2","9">>)

\* how often the model stream was started in the turn
Starts(q) == Cardinality(Positions(q.log, "astream"))

\* C8: the stream is started again only after a rate-limit failure and after
\* a sleep, at most max_retries times, so at most max_retries + 1 starts a
\* turn; the delays are 2, 4, 8; a rate-limit failure after the last retry is
\* raised to stream_response
C8_BoundedBackoff ==
  \A r \in Requests :
    LET q == req[r]
    IN  /\ q.attempt <= max_retries
        /\ Starts(q) <= max_retries + 1
        /\ Starts(q) > 0 => Starts(q) = q.attempt + 1
        /\ Len(q.delays) = q.attempt
        /\ q.delays = SubSeq(<<2, 4, 8>>, 1, Len(q.delays))
        /\ \A k \in 1..Len(q.delays) : q.delays[k] = base_delay * Pow2(k - 1)
        /\ \A k \in 1..q.attempt : RateLimitSignal(q.failures[k])
        /\ \A n \in Positions(q.log, "astream") :
             q.log[n - 1] = "sleep" \/ q.log[n - 1] = "stream_response"
        /\ Len(q.failures) = max_retries + 1
             => q.raised = <<q.failures[max_retries + 1]>> /\ PastStreaming(q)

\* a turn with max_retries retries whose last stream hit the rate limit too
C8_Witness ==
  \E r \in Requests :
    /\ req[r].attempt = max_retries
    /\ req[r].delays = <<2, 4, 8>>
    /\ req[r].raised # <<>>
    /\ RateLimitSignal(req[r].raised[1])
    /\ Starts(req[r]) = max_retries + 1

\* C9 as stated: when a failure that is no rate-limit signal ended the
\* streaming call, the stream was started exactly once in the turn and no
\* delay was taken
C9_StartedExactlyOnce ==
  \A r \in Requests :
    LET q == req[r]
    IN  (q.raised # <<>> /\ ~RateLimitSignal(q.raised[1]))
          => Starts(q) = 1 /\ q.delays = <<>> /\ PastStreaming(q)

\* C9, amended: a failure that is no rate-limit signal ends the streaming
\* call at once: it is the last failure of the turn, it is raised to
\* stream_response, and no start of the stream and no delay follows it; the
\* stream is started once and no delay is taken when it is the first failure
C9_NoRetryAfterOtherFailure ==
  \A r \in Requests :
    LET q == req[r]
    IN  \A k \in 1..Len(q.failures) :
          ~RateLimitSignal(q.failures[k])
            => /\ k = Len(q.failures)
               /\ q.raised = <<q.failures[k]>>
               /\ PastStreaming(q)
               /\ Starts(q) = k
               /\ Len(q.delays) = k - 1

\* a turn whose stream hit the rate limit, was started again, and then failed
\* otherwise
C9_Witness ==
  \E r \in Requests :
    /\ Len(req[r].failures) = 2
    /\ RateLimitSignal(req[r].failures[1])
    /\ ~RateLimitSignal(req[r].failures[2])
    /\ req[r].raised = <<req[r].failures[2]>>

\* C10: when the streaming call fails for good, stream_response does not
\* raise: formatted_response is the error message followed by the raw
\* combined_context, completion_tokens is 0, and the turn goes on through
\* usage_analytics and checkpoint_save
C10_DegradedReply ==
  \A r \in Requests :
    LET q == req[r]
        s == q.state
    IN  q.raised # <<>>
          => /\ PastStreaming(q)
             /\ s["formatted_response"] =
                  <<"E","r","r","o","r"," ","f","o","r","m","a","t","t","i","n","g"," ","r","e","s","p","o","n","s","e",":"," ">> \o q.raised[1].msg
                  \o <<"\n","\n","R","a","w"," ","r","e","s","u","l","t","s",":","\n">> \o s["combined_context"]
             /\ s["completion_tokens"] = 0
             /\ q.pc = "graph_end"
                  => /\ SubSeq(q.log, Len(q.log) - 1, Len(q.log))
                          \in {<<"usage_analytics", "checkpoint_save">>,
                               <<"track_token_usage", "checkpoint_save">>}
                     /\ LastMessage(q).content = s["formatted_response"]

\* a turn whose stream failed past the retry cap and that reached its end
\* with the degraded reply
C10_Witness ==
  \E r \in Requests :
    /\ req[r].pc = "graph_end"
    /\ Len(req[r].failures) = max_retries + 1
    /\ req[r].raised # <<>>
    /\ req[r].state["combined_context"] # <<>>
    /\ req[r].state["completion_tokens"] = 0

\* some entry of the result sequence is an error entry
HasErrorEntry(results) == \E n \in 1..Len(results) : results[n].type = "error"

\* C11: whatever calls to the directory, the web search, the model and the
\* accounting table fail, no exception leaves the pipeline, and every turn
\* that was started reaches the end of checkpoint_save with an assistant
\* entry as the last entry of its transcript
C11_AlwaysReplies ==
  /\ [](\A r \in Requests : req[r].pc # "raised")
  /\ \A r \in Requests :
       (req[r].pc = "get_history")
         ~> (/\ req[r].pc = "graph_end"
             /\ Positions(req[r].log, "checkpoint_save") # {}
             /\ LastMessage(req[r]).type = "ai"
             /\ LastMessage(req[r]).content # <<>>)

\* a turn that reached its end although the device search, the web search
\* and the model stream raised and the accounting table refused the update
C11_Witness ==
  \E r \in Requests :
    /\ req[r].pc = "graph_end"
    /\ HasErrorEntry(req[r].state["ifixit_results"])
    /\ HasErrorEntry(req[r].state["web_results"])
    /\ req[r].raised # <<>>
    /\ Positions(req[r].log, "track_token_usage") # {}
    /\ user_usage = <<>>
    /\ LastMessage(req[r]).type = "ai"

\* C12: in every state of a turn, web_results is empty whenever ifixit_found
\* is TRUE
C12_WebEmptyWhenFound ==
  \A r \in Requests :
    Get(req[r].state, "ifixit_found", FALSE) => Get(req[r].state, "web_results", <<>>) = <<>>

\* the entry records a call that did not succeed: the call raised, or the tool
\* handed its own failure back as text
FailedEntry(entry, query) ==
  \/ entry.type = "error"
  \/ entry.content \in {SearchErrorText, GuidesErrorText, GuideErrorText,
                        WebUnavailableText(query)}

\* the directory was called in the turn of q and none of the calls to the
\* directory and to the web search succeeded
NoCallSucceeded(q) ==
  /\ "find_device" \in Range(q.log)
  /\ \A n \in 1..Len(q.state["ifixit_results"]) :
       FailedEntry(q.state["ifixit_results"][n], q.state["user_query"])
  /\ \A n \in 1..Len(q.state["web_results"]) :
       FailedEntry(q.state["web_results"][n], q.state["user_query"])

\* C13: a turn in which no call to the directory and no call to the web search
\* succeeded ends with has_results FALSE, with the fixed "I couldn't find any
\* information about that..." message as its reply, and with prompt_tokens,
\* completion_tokens and total_tokens zero
C13_NothingFoundWhenAllFail ==
  \A r \in Requests :
    LET q == req[r]
        s == q.state
    IN  (q.pc = "graph_end" /\ NoCallSucceeded(q))
          => /\ s["has_results"] = FALSE
             /\ LastMessage(q).content = MsgNoInfo
             /\ s["prompt_tokens"] = 0
             /\ s["completion_tokens"] = 0
             /\ s["total_tokens"] = 0

\* the stages a turn has run, in the order they ran
StagesRun(log) == SelectSeq(log, LAMBDA e : e \in Range(StageOrder))

\* how many stages a handler at pc has behind it
StagesBehind(pc) ==
  IF pc \in {"idle", "get_history"} THEN 0
  ELSE IF pc = "streaming" THEN 7
  ELSE IF pc = "graph_end" THEN 9
  ELSE (CHOOSE n \in 1..9 : StageOrder[n] = pc) - 1

\* the stage that runs at pc
StageAt(pc) == IF pc = "streaming" THEN "stream_response" ELSE pc

\* C14: in every turn the stages run once each in the order normalize_input,
\* ifixit_search, route_results, web_search_fallback, manage_context,
\* format_markdown, stream_response, usage_analytics, checkpoint_save, none
\* run again and none out of order; and every stage works on the state that
\* holds the updates of the stages before it: a step of a stage keeps every
\* key and changes only keys of that stage's own update
C14_StagesInOrderOnCumulativeState ==
  /\ [](\A r \in Requests :
          /\ req[r].pc # "raised"
          /\ StagesRun(req[r].log) = SubSeq(StageOrder, 1, StagesBehind(req[r].pc)))
  /\ [][\A r \in Requests :
          (StageAt(req[r].pc) \in Range(StageOrder) /\ req'[r] # req[r])
            => /\ DOMAIN req[r].state \subseteq DOMAIN req'[r].state
               /\ \A k \in DOMAIN req[r].state :
                    req'[r].state[k] # req[r].state[k]
                      => k \in StageReturns(StageAt(req[r].pc))
               /\ req[r].written \subseteq DOMAIN req'[r].state]_vars

\* a turn that ran all nine stages and whose state holds at its end what the
\* first stage and the stages after it wrote
C14_Witness ==
  \E r \in Requests :
    /\ req[r].pc = "graph_end"
    /\ StagesRun(req[r].log) = StageOrder
    /\ Truthy(req[r].state["user_query"])
    /\ req[r].state["ifixit_results"] # <<>>
    /\ req[r].state["combined_context"] # <<>>
    /\ req[r].state["total_tokens"] > 0

\* the calls to the directory a turn has made, in the order they were made
DirectoryCalls(log) ==
  SelectSeq(log, LAMBDA e : e \in {"find_device", "list_guides", "get_guide"})

\* the content of the first entry of the given type, <<>> when there is none
EntryContent(results, type) ==
  IF \E n \in 1..Len(results) : results[n].type = type
  THEN results[CHOOSE n \in 1..Len(results) :
                 /\ results[n].type = type
                 /\ \A m \in 1..(n - 1) : results[m].type # type].content
  ELSE <<>>

\* C15: ifixit_search calls find_device, then list_guides, then get_guide, in
\* that order and each at most once; list_guides is called only if a non-empty
\* device title was extracted from what find_device returned, get_guide only
\* if a non-empty guide id was extracted from what list_guides returned; with
\* no device title nothing is called after find_device
C15_DirectoryCallsInOrder ==
  \A r \in Requests :
    LET q == req[r]
        calls == DirectoryCalls(q.log)
        results == Get(q.state, "ifixit_results", <<>>)
        device_result == EntryContent(results, "device_search")
        guides_result == EntryContent(results, "guides_list")
    IN  "ifixit_search" \in Range(q.log)
          => /\ calls \in {<<>>, <<"find_device">>, <<"find_device", "list_guides">>,
                           <<"find_device", "list_guides", "get_guide">>}
             /\ "list_guides" \in Range(calls)
                  => /\ EntryContent(results, "device_search") # <<>>
                     /\ Truthy(extract_device_title(device_result))
             /\ "get_guide" \in Range(calls)
                  => /\ EntryContent(results, "guides_list") # <<>>
                     /\ Truthy(extract_guide_id(guides_result, q.state["normalized_query"]))
             /\ (calls # <<>> /\ ~Truthy(Get(q.state, "device_title", None)))
                  => calls = <<"find_device">>

\* a turn whose lookup made all three calls
C15_Witness ==
  \E r \in Requests :
    /\ req[r].pc = "route_results"
    /\ DirectoryCalls(req[r].log) = <<"find_device", "list_guides", "get_guide">>
    /\ Len(req[r].state["ifixit_results"]) = 3

\* the entry a call to the directory adds when it returns text
ResultEntry(call, text) ==
  [type |-> CASE call = "find_device" -> "device_search"
              [] call = "list_guides" -> "guides_list"
              [] call = "get_guide" -> "guide_detail",
   content |-> text]

\* the texts the call can return when the directory answered
ReturnedTexts(call) ==
  LET outcomes == CASE call = "find_device" -> FindDeviceOutcomes
                    [] call = "list_guides" -> ListGuidesOutcomes
                    [] call = "get_guide" ->
                         GetGuideOutcomes(<<"1","0","1">>) \cup GetGuideOutcomes(<<"1","0","2">>)
  IN  {o.val : o \in {x \in outcomes : x.ok}}
      \ {SearchErrorText, GuidesErrorText, GuideErrorText}

\* the entry a call to the directory adds when it fails with text
ErrorEntry(call, text) ==
  [type |-> "error",
   content |-> (CASE call = "find_device" -> ErrDeviceSearch
                  [] call = "list_guides" -> ErrGuidesList
                  [] call = "get_guide" -> ErrGuideDetail) \o text]

\* C16: every call ifixit_search makes adds exactly one entry to
\* ifixit_results, in the order of the calls: the result under the type of
\* the call when the call succeeded, an error entry when the call failed;
\* after a call that failed no further call is made, and the stage returns
\* normally with the entries collected so far
C16_OneEntryPerCall ==
  \A r \in Requests :
    LET q == req[r]
        calls == DirectoryCalls(q.log)
        results == Get(q.state, "ifixit_results", <<>>)
    IN  "ifixit_search" \in Range(q.log)
          => /\ q.pc # "raised"
             /\ Len(results) = Len(calls)
             /\ \A n \in 1..Len(calls) :
                  \/ results[n] \in {ResultEntry(calls[n], t) : t \in ReturnedTexts(calls[n])}
                  \/ /\ results[n] = ErrorEntry(calls[n], <<"t","i","m","e","d"," ","o","u","t">>)
                     /\ n = Len(calls)

\* text in lower case has the word w
HasWord(text, w) == \E i \in 1..Len(text) : StartsWithAt(Lower(text), i, w)

\* the positive signal: "found devices:" or "found guides:" together with a
\* list marker, or a guide marker or a directory address together with "url:"
PositiveSignal(text) ==
  \/ /\ HasWord(text, <<"f","o","u","n","d"," ","d","e","v","i","c","e","s",":">>) \/ HasWord(text, <<"f","o","u","n","d"," ","g","u","i","d","e","s",":">>)
     /\ "-" \in Range(text)
  \/ /\ HasWord(text, <<"[","g","u","i","d","e","]">>) \/ HasWord(text, <<"i","f","i","x","i","t",".","c","o","m">>)
     /\ HasWord(text, <<"u","r","l",":">>)

\* the negative signal
NegativeSignal(text) ==
  \/ HasWord(text, <<"n","o"," ","r","e","s","u","l","t","s"," ","f","o","u","n","d">>)
  \/ HasWord(text, <<"n","o"," ","d","e","v","i","c","e","s"," ","f","o","u","n","d">>)

\* the entries of results that qualify
Qualifying(results) ==
  {n \in 1..Len(results) :
     /\ results[n].type # "error"
     /\ PositiveSignal(results[n].content)
     /\ ~NegativeSignal(results[n].content)}

\* the turn has just left route_results
JustRouted(q) == q.pc = "web_search_fallback" /\ "route_results" \in Range(q.log)

\* C17: route_results sets ifixit_found to TRUE if and only if some entry of
\* ifixit_results is not an error entry, has a positive signal and has no
\* negative signal, and to FALSE otherwise; one such entry is enough whatever
\* the other entries hold
C17_FoundIffQualifyingEntry ==
  \A r \in Requests :
    JustRouted(req[r])
      => /\ req[r].state["ifixit_found"] \in BOOLEAN
         /\ req[r].state["ifixit_found"] <=> Qualifying(req[r].state["ifixit_results"]) # {}

\* a routing to TRUE on a first entry that qualifies although the entry after
\* it carries a negative signal
C17_Witness ==
  \E r \in Requests :
    /\ JustRouted(req[r])
    /\ req[r].state["ifixit_found"] = TRUE
    /\ Len(req[r].state["ifixit_results"]) = 2
    /\ Qualifying(req[r].state["ifixit_results"]) = {1}
    /\ NegativeSignal(req[r].state["ifixit_results"][2].content)

\* C18: the ifixit_found route_results sets is a function of ifixit_results
\* alone: it is what route_results gives on a state that holds nothing but
\* the same ifixit_results, whatever user_id, messages, queries and values
\* left from an earlier turn the state holds, and route_results run again
\* on the state it left gives the same
C18_RoutingReadsResultsOnly ==
  \A r \in Requests :
    LET s == req[r].state
    IN  JustRouted(req[r])
          => /\ s["ifixit_found"]
                  = route_results([ifixit_results |-> s["ifixit_results"]]).ifixit_found
             /\ route_results(s).ifixit_found = s["ifixit_found"]
             /\ Update(s, route_results(s)) = s

\* a routing to FALSE by the second user on a state whose checkpoint held
\* ifixit_found TRUE from an earlier turn
C18_Witness ==
  \E r \in Requests :
    /\ JustRouted(req[r])
    /\ req[r].user_id = "u2"
    /\ req[r].state["ifixit_found"] = FALSE
    /\ req[r].state["ifixit_results"] # <<>>
    /\ "web_results" \in DOMAIN req[r].state
    /\ req[r].state["web_results"] = <<>>

\* the turn has just left manage_context
JustAssembled(q) == q.pc = "format_markdown" /\ "manage_context" \in Range(q.log)

\* the label of the section of an entry
SectionLabel(entry) ==
  CASE entry.type = "device_search" -> <<"i","F","i","x","i","t"," ","S","e","a","r","c","h",":","\n">>
    [] entry.type = "guides_list" -> <<"A","v","a","i","l","a","b","l","e"," ","G","u","i","d","e","s",":","\n">>
    [] entry.type = "guide_detail" -> <<"G","u","i","d","e"," ","D","e","t","a","i","l","s",":","\n">>
    [] entry.type = "error" -> <<"N","o","t","e",":"," ">>
    [] entry.type = "web_search" -> <<>>

\* the sections in their order: one for each entry of results that is not an
\* error entry, one for each error entry when found is FALSE, then, when found
\* is FALSE, one for each entry of web under the label of unofficial sources
Sections(results, web, found) ==
  LET shown == SelectSeq(results, LAMBDA e : e.type # "error" \/ ~found)
  IN  [n \in 1..Len(shown) |-> SectionLabel(shown[n]) \o shown[n].content]
      \o (IF found THEN <<>>
          ELSE [n \in 1..Len(web) |->
                  <<"W","e","b"," ","S","e","a","r","c","h"," ","(","u","n","o","f","f","i","c","i","a","l"," ","s","o","u","r","c","e","s",")",":","\n">> \o web[n].content])

\* the sections with a blank line between them
BlankLineJoined(sections) ==
  IF sections = <<>> THEN <<>>
  ELSE LET RECURSIVE upto(_)
           upto(n) == IF n = 1 THEN sections[1]
                      ELSE upto(n - 1) \o <<"\n", "\n">> \o sections[n]
       IN  upto(Len(sections))

\* C19: combined_context is the sections joined by blank lines: one labelled
\* section for each entry of ifixit_results in order, an error entry only
\* when ifixit_found is FALSE, then, only when ifixit_found is FALSE, one
\* section for each entry of web_results labelled as unofficial; and so a
\* lookup of the directory that failed is mentioned in combined_context only
\* when ifixit_found is FALSE
C19_FailedLookupOnlyWhenNotFound ==
  \A r \in Requests :
    LET s == req[r].state
    IN  JustAssembled(req[r])
          => /\ s["combined_context"]
                  = BlankLineJoined(Sections(s["ifixit_results"], s["web_results"], s["ifixit_found"]))
             /\ \A n \in 1..Len(s["ifixit_results"]) :
                  (/\ FailedEntry(s["ifixit_results"][n], s["user_query"])
                   /\ Contains(s["combined_context"], s["ifixit_results"][n].content))
                    => ~s["ifixit_found"]

\* C20: after manage_context has_results is TRUE if and only if
\* combined_context is not empty, and combined_context is not empty if and
\* only if at least one section was produced
C20_HasResultsIffContext ==
  \A r \in Requests :
    LET s == req[r].state
    IN  JustAssembled(req[r])
          => /\ s["has_results"] \in BOOLEAN
             /\ s["has_results"] <=> s["combined_context"] # <<>>
             /\ s["combined_context"] # <<>>
                  <=> Sections(s["ifixit_results"], s["web_results"], s["ifixit_found"]) # <<>>

\* an assembly of exactly one section, with has_results TRUE
C20_Witness ==
  \E r \in Requests :
    /\ JustAssembled(req[r])
    /\ Len(Sections(req[r].state["ifixit_results"], req[r].state["web_results"],
                    req[r].state["ifixit_found"])) = 1
    /\ req[r].state["has_results"] = TRUE
    /\ req[r].state["combined_context"] # <<>>

\* C21: manage_context is idempotent: a step of the stage leaves the keys it
\* reads (ifixit_results, web_results, ifixit_found) as they were, and the
\* stage run again on the state it left returns the same combined_context and
\* has_results, so that merging the second return changes nothing
C21_ContextAssemblyIdempotent ==
  [][\A r \in Requests :
       (req[r].pc = "manage_context" /\ req'[r].pc = "format_markdown")
         => LET s == req[r].state
                t == req'[r].state
            IN  /\ \A k \in NodeReads("manage_context") :
                     /\ k \in DOMAIN s <=> k \in DOMAIN t
                     /\ k \in DOMAIN s => t[k] = s[k]
                /\ manage_context(t) = manage_context(s)
                /\ t["combined_context"] = manage_context(s).combined_context
                /\ t["has_results"] = manage_context(s).has_results
                /\ Update(t, manage_context(t)) = t]_vars

\* an assembly with a section of the directory and a section of the web
C21_Witness ==
  \E r \in Requests :
    /\ JustAssembled(req[r])
    /\ req[r].state["ifixit_results"] # <<>>
    /\ req[r].state["web_results"] # <<>>
    /\ ~req[r].state["ifixit_found"]
    /\ Len(context_parts(req[r].state)) >= 2
    /\ manage_context(req[r].state).combined_context = req[r].state["combined_context"]

\* the turn has just left ifixit_search with a listing and the detail of a guide
JustLookedUp(q) ==
  /\ q.pc = "route_results"
  /\ Len(Get(q.state, "ifixit_results", <<>>)) = 3
  /\ q.state["ifixit_results"][2].type = "guides_list"
  /\ q.state["ifixit_results"][3].type = "guide_detail"
  /\ q.state["ifixit_results"][3].content # GuideErrorText

\* the id of the guide whose detail the directory handed back is id
DetailIsOfGuide(q, id) ==
  Contains(q.state["ifixit_results"][3].content, <<"*","*","G","u","i","d","e"," ">> \o id \o <<"*","*","\n">>)

\* the lines of a text
RECURSIVE SplitLines(_)
SplitLines(s) ==
  IF \A j \in 1..Len(s) : s[j] # "\n" THEN <<s>>
  ELSE <<SubSeq(s, 1, Least({j \in 1..Len(s) : s[j] = "\n"}) - 1)>>
       \o SplitLines(SubSeq(s, Least({j \in 1..Len(s) : s[j] = "\n"}) + 1, Len(s)))

\* the first id on a line: a bracketed number, else a labelled number
FirstIdOn(line) ==
  IF FindBracketIds(line) # <<>> THEN FindBracketIds(line)[1]
  ELSE IF FindLabelledIds(line) # <<>> THEN FindLabelledIds(line)[1]
  ELSE <<>>

\* the keyword groups in their priority
KeywordGroups ==
  <<{<<"d","i","s","c">>, <<"d","r","i","v","e">>, <<"d","i","s","k">>, <<"d","v","d">>, <<"c","d">>, <<"b","l","u">>},
    {<<"s","c","r","e","e","n">>, <<"d","i","s","p","l","a","y">>, <<"l","c","d">>, <<"g","l","a","s","s">>},
    {<<"b","a","t","t","e","r">>}>>

\* the lines of the listing that carry an id and a keyword of group k
GroupLines(lines, k) ==
  {n \in 1..Len(lines) :
     FirstIdOn(lines[n]) # <<>> /\ \E w \in KeywordGroups[k] : HasWord(lines[n], w)}

\* the groups that have a keyword in the query and a line in the listing
GroupsFound(lines, query) ==
  {k \in 1..3 : (\E w \in KeywordGroups[k] : Contains(query, w)) /\ GroupLines(lines, k) # {}}

\* C22: the guide asked of get_guide is the first id on the first line of the
\* listing that contains a keyword of the highest-priority group, of
\* {disc, drive, disk, dvd, cd, blu}, {screen, display, lcd, glass}, {batter}
\* in this order, that has a keyword in normalized_query and on a line
C22_GuideOfHighestKeywordGroup ==
  \A r \in Requests :
    LET q == req[r]
        lines == SplitLines(q.state["ifixit_results"][2].content)
        found == GroupsFound(lines, q.state["normalized_query"])
    IN  (JustLookedUp(q) /\ found # {})
          => DetailIsOfGuide(q, FirstIdOn(lines[Least(GroupLines(lines, Least(found)))]))

\* the first id of a listing: its first bracketed number, else its first
\* labelled number, else none
FirstIdOf(listing) ==
  IF FindBracketIds(listing) # <<>> THEN FindBracketIds(listing)[1]
  ELSE IF FindLabelledIds(listing) # <<>> THEN FindLabelledIds(listing)[1]
  ELSE <<>>

\* C23: after ifixit_search took a listing: when the listing has no id,
\* get_guide is not called and the listing is the last entry; when it has one
\* and no line with an id has a keyword of a group that normalized_query has a
\* keyword of (no keyword in the query at all included), get_guide is called,
\* and the guide it is asked for is the first id of the listing, bracketed
\* ids before labelled ones, whatever the lines say
C23_FirstIdWithoutKeywordMatch ==
  \A r \in Requests :
    LET q == req[r]
        results == Get(q.state, "ifixit_results", <<>>)
        listing == results[2].content
    IN  (q.pc = "route_results" /\ Len(results) >= 2 /\ results[2].type = "guides_list")
          => IF FirstIdOf(listing) = <<>>
             THEN "get_guide" \notin Range(q.log) /\ Len(results) = 2
             ELSE GroupsFound(SplitLines(listing), q.state["normalized_query"]) = {}
                    => /\ "get_guide" \in Range(q.log)
                       /\ Len(results) = 3
                       /\ JustLookedUp(q) => DetailIsOfGuide(q, FirstIdOf(listing))

\* a listing of labelled ids only and of two ids, under a query without any
\* keyword: the guide asked for is the first
C23_Witness ==
  \E r \in Requests :
    /\ JustLookedUp(req[r])
    /\ FindBracketIds(req[r].state["ifixit_results"][2].content) = <<>>
    /\ Len(FindLabelledIds(req[r].state["ifixit_results"][2].content)) = 2
    /\ GroupsFound(SplitLines(req[r].state["ifixit_results"][2].content),
                   req[r].state["normalized_query"]) = {}
    /\ req[r].state["normalized_query"] = <<"p","s","5"," ","f","a","n">>
    /\ DetailIsOfGuide(req[r], <<"3","0","1">>)

\* the turn has just left ifixit_search and find_device had returned text
JustSearched(q) ==
  /\ q.pc = "route_results"
  /\ Len(Get(q.state, "ifixit_results", <<>>)) >= 1
  /\ q.state["ifixit_results"][1].type = "device_search"

\* "- <title> (URL:" begins at i and its "(URL:" at p
UrlTitleAt(text, i, p) ==
  /\ text[i] = "-"
  /\ p > i + 1
  /\ StartsWithAt(text, p, <<"(","U","R","L",":">>)
  /\ \A j \in (i + 1)..(p - 1) : text[j] # "("

\* the title after the first "- " that runs up to a "(URL:"
UrlTitle(text) ==
  LET at == {i \in 1..Len(text) : \E p \in 1..Len(text) : UrlTitleAt(text, i, p)}
  IN  SubSeq(text, Least(at) + 1,
             Least({p \in 1..Len(text) : UrlTitleAt(text, Least(at), p)}) - 1)

\* the rest of the line after the first "Device:"
LabelTitle(text) ==
  LET at == {i \in 1..Len(text) : StartsWithAt(text, i, <<"D","e","v","i","c","e",":">>)}
  IN  SubSeq(text, Least(at) + 7, EndOfLine(text, Least(at) + 7) - 1)

\* the title by the three patterns in their order, the two of plain text
\* trimmed; trimmed says whether the key of structured data is trimmed too
TitleByPriority(text, trimmed) ==
  IF \E i, p \in 1..Len(text) : UrlTitleAt(text, i, p) THEN Strip(UrlTitle(text))
  ELSE IF \E i \in 1..Len(text) : StartsWithAt(text, i, <<"D","e","v","i","c","e",":">>)
  THEN Strip(LabelTitle(text))
  ELSE IF ~(text # <<>> /\ text[1] \in {"{", "["}) THEN <<>>
  ELSE IF trimmed THEN Strip(TitleFromJson(json_loads(text)))
  ELSE TitleFromJson(json_loads(text))

\* after ifixit_search device_title is title, and list_guides was called
\* exactly when title is not empty
TitleDecides(q, title) ==
  /\ q.state["device_title"] = title
  /\ "list_guides" \in Range(q.log) <=> title # <<>>
  /\ title = <<>> => Len(q.state["ifixit_results"]) = 1

\* C24 as stated: the title is that of the first pattern that matches, of
\* "- <title> (URL:", "Device: <title>", the title or name key of structured
\* data, in this order, trimmed; without a match it is absent, the stage
\* does not raise and list_guides is not called
C24_TrimmedTitleByPriority ==
  \A r \in Requests :
    /\ req[r].pc # "raised"
    /\ JustSearched(req[r])
         => TitleDecides(req[r], TitleByPriority(req[r].state["ifixit_results"][1].content, TRUE))

\* C24 amended: as above, the title of the two patterns of plain text
\* trimmed and the value of the key of structured data as it stands
C24_TitleByPriority ==
  \A r \in Requests :
    /\ req[r].pc # "raised"
    /\ JustSearched(req[r])
         => TitleDecides(req[r], TitleByPriority(req[r].state["ifixit_results"][1].content, FALSE))

\* a text with "Device:" before a "- .. (URL:": the title is that of the latter
C24_Witness ==
  \E r \in Requests :
    /\ JustSearched(req[r])
    /\ req[r].state["ifixit_results"][1].content = <<"D","e","v","i","c","e",":"," ","P","S","5"," ","\n","-"," ","P","i","x","e","l"," ","(","U","R","L",":"," ","u",")">>
    /\ req[r].state["device_title"] = <<"P","i","x","e","l">>
    /\ "list_guides" \in Range(req[r].log)

\* the turn has left usage_analytics
PastUsage(q) == q.pc \in {"checkpoint_save", "graph_end"}

\* C25: from usage_analytics to the end of the turn, on every path,
\* total_tokens is prompt_tokens plus completion_tokens as the state holds them
C25_TotalIsPromptPlusCompletion ==
  \A r \in Requests :
    PastUsage(req[r])
      => /\ {"prompt_tokens", "completion_tokens", "total_tokens"} \subseteq DOMAIN req[r].state
         /\ req[r].state["total_tokens"]
              = req[r].state["prompt_tokens"] + req[r].state["completion_tokens"]

\* the end of a turn whose prompt and whose reply both count tokens
C25_Witness ==
  \E r \in Requests :
    /\ req[r].pc = "graph_end"
    /\ req[r].state["prompt_tokens"] > 0
    /\ req[r].state["completion_tokens"] > 0
    /\ req[r].state["total_tokens"]
         = req[r].state["prompt_tokens"] + req[r].state["completion_tokens"]

\* format_markdown built a prompt in the turn of q
PromptBuilt(q) == "format_prompt" \in q.written

\* prompt_tokens is a quarter, rounded down, of the length of the prompt built
\* in the turn of q, and 0 when the turn built none
PromptEstimate(q) ==
  q.state["prompt_tokens"]
    = IF PromptBuilt(q) THEN Len(q.state["format_prompt"]) \div 4 ELSE 0

\* C26 as stated: at the end of every turn prompt_tokens is
\* floor(len(format_prompt) / 4) for the prompt of the turn and
\* completion_tokens is floor(len(formatted_response) / 4)
C26_EstimatesAreQuarterLengths ==
  \A r \in Requests :
    req[r].pc = "graph_end"
      => /\ PromptEstimate(req[r])
         /\ req[r].state["completion_tokens"] = Len(req[r].state["formatted_response"]) \div 4

\* C26 amended: at the end of every turn prompt_tokens is
\* floor(len(format_prompt) / 4) for the prompt of the turn, 0 when the turn
\* built none; completion_tokens is floor(len(formatted_response) / 4) when
\* the reply is the text a model stream gave to its end, and 0 when the reply
\* is a fixed text or the text of a failed stream
C26_EstimatesOfModelText ==
  \A r \in Requests :
    req[r].pc = "graph_end"
      => /\ PromptEstimate(req[r])
         /\ req[r].state["completion_tokens"]
              = IF "stream_end" \in Range(req[r].log)
                THEN Len(req[r].state["formatted_response"]) \div 4
                ELSE 0
         /\ "stream_end" \notin Range(req[r].log) => req[r].state["formatted_response"] # <<>>

\* the end of a turn whose prompt and reply have lengths that are no
\* multiples of four
C26_Witness ==
  \E r \in Requests :
    /\ req[r].pc = "graph_end"
    /\ PromptBuilt(req[r])
    /\ "stream_end" \in Range(req[r].log)
    /\ Len(req[r].state["formatted_response"]) % 4 # 0
    /\ Len(req[r].state["format_prompt"]) % 4 # 0
    /\ req[r].state["completion_tokens"] > 0

\* the events of the stage stream_response
StreamEvents == {"stream_response", "astream", "sleep", "stream_end"}

\* the step is usage_analytics of r making the accounting call, and the call fails
AccountingFails(r) ==
  /\ req[r].pc = "usage_analytics"
  /\ req'[r].pc # "usage_analytics"
  /\ "track_token_usage" \in Range(req'[r].log)
  /\ user_usage' = user_usage

\* C27: track_token_usage is called at most once a turn, by usage_analytics
\* after every event of stream_response, and only with a user_id and a
\* positive total_tokens; when the call fails nothing is raised: the stage
\* returns total_tokens and goes on to checkpoint_save, and from
\* usage_analytics to the end of the turn formatted_response stays what it was
C27_AccountingOnceAndContained ==
  /\ [](\A r \in Requests :
         LET q == req[r]
             calls == Positions(q.log, "track_token_usage")
         IN  /\ Cardinality(calls) <= 1
             /\ q.pc # "raised"
             /\ \A n \in calls :
                  /\ n > 1 /\ q.log[n - 1] = "usage_analytics"
                  /\ \A m \in 1..Len(q.log) : q.log[m] \in StreamEvents => m < n
                  /\ Truthy(q.state["user_id"])
                  /\ q.state["total_tokens"] > 0)
  /\ [][\A r \in Requests :
          /\ AccountingFails(r)
               => /\ req'[r].pc = "checkpoint_save"
                  /\ req'[r].state["total_tokens"]
                       = req[r].state["prompt_tokens"] + req[r].state["completion_tokens"]
          /\ (req[r].pc \in {"usage_analytics", "checkpoint_save"}
               /\ req'[r].pc \in {"checkpoint_save", "graph_end"})
               => req'[r].state["formatted_response"] = req[r].state["formatted_response"]
          /\ (req[r].pc = "checkpoint_save" /\ req'[r].pc = "graph_end")
               => LastMessage(req'[r]).content = req[r].state["formatted_response"]
                  \/ req[r].state["formatted_response"] = <<>>]_vars

\* the end of a turn whose accounting call failed: nothing is accounted and
\* the transcript ends with the reply
C27_Witness ==
  \E r \in Requests :
    /\ req[r].pc = "graph_end"
    /\ "track_token_usage" \in Range(req[r].log)
    /\ req[r].state["total_tokens"] > 0
    /\ user_usage = <<>>
    /\ LastMessage(req[r]).content = req[r].state["formatted_response"]

\* C28: in every turn of chat and of chat_stream save_message_to_history is
\* called once with role "user", before the graph starts, and once with role
\* "assistant", after the graph gave the reply (checkpoint_save has run):
\* never twice with role "assistant", whatever on_chain_end events arrive
C28_OneSaveEachPerTurn ==
  /\ [](\A r \in Requests :
         LET q == req[r]
         IN  /\ q.pc # "idle" => Len(q.saves) >= 1 /\ q.saves[1] = "user"
             /\ Cardinality(Positions(q.saves, "user")) <= 1
             /\ Cardinality(Positions(q.saves, "assistant")) <= 1
             /\ "assistant" \in Range(q.saves) => "checkpoint_save" \in Range(q.log))
  /\ [][\A r \in Requests :
          (req[r].pc = "graph_end" /\ req'[r].pc = "idle")
            => req[r].saves = IF req[r].endpoint = "chat" THEN <<"user">>
                              ELSE <<"user", "assistant">>]_vars

\* the two owners
Owners == {"u1", "u2"}

\* what the program holds for owner a: the checkpoint of a's thread, the rows
\* of a's thread and a's usage
OwnerView(a, mem, rows, usage) ==
  <<IF thread_id(a) \in DOMAIN mem THEN mem[thread_id(a)] ELSE <<>>,
    SelectSeq(rows, LAMBDA row : row.thread_id = thread_id(a) \/ row.user_id = a),
    IF a \in DOMAIN usage THEN usage[a] ELSE 0>>

\* the step belongs to a turn of owner b
TurnOf(b) ==
  \E r \in Requests :
    \/ req[r].pc # "idle" /\ req[r].user_id = b
    \/ req[r].pc = "idle" /\ req'[r].pc # "idle" /\ req'[r].user_id = b

\* C29: turns of different owners do not interfere.  A step of a turn of
\* owner b changes nothing of what the program holds for another owner a (the
\* checkpoint of a's thread, the rows of a's thread, a's usage); and a turn of
\* a reads only that: its state is the checkpoint of a's own thread, which
\* only turns of a wrote, begun from the rows of a's own thread
C29_OwnersDoNotInterfere ==
  /\ [](\A a \in Owners :
         /\ thread_id(a) \in DOMAIN memory
              => memory[thread_id(a)]["user_id"] = UserIdText(a)
         /\ \A b \in Owners \ {a} : thread_id(a) # thread_id(b)
         /\ \A r \in Requests :
              (req[r].user_id = a /\ req[r].pc \notin {"idle", "get_history"})
                => /\ req[r].state = memory[thread_id(a)]
                   /\ \A n \in 1..Len(req[r].state["messages"]) :
                        req[r].state["messages"][n].type = "human"
                          => \E m \in 1..Len(conversations) :
                               /\ conversations[m].user_id = a
                               /\ conversations[m].content
                                    = req[r].state["messages"][n].content)
  /\ [](\A n \in 1..Len(conversations) :
         conversations[n].thread_id = thread_id(conversations[n].user_id))
  /\ [][\A a, b \in Owners :
          (a # b /\ TurnOf(b))
            => OwnerView(a, memory', conversations', user_usage')
                 = OwnerView(a, memory, conversations, user_usage)]_vars

\* a turn of u1 under way after a turn of u2 that left a checkpoint, rows
\* and usage of its own
C29_Witness ==
  \E r \in Requests :
    /\ req[r].user_id = "u1"
    /\ req[r].pc = "graph_end"
    /\ thread_id("u2") \in DOMAIN memory
    /\ memory[thread_id("u2")]["messages"] # req[r].state["messages"]
    /\ "u2" \in DOMAIN user_usage
    /\ \E n \in 1..Len(conversations) : conversations[n].user_id = "u2"

\* the fields AgentState assigns to each node in its comments ("Node 1:
\* normalize_input" ...); the rendering and streaming nodes together own the
\* prompt, the reply and their estimates, and checkpoint_save the transcript
AgentStateOwned(node) ==
  CASE node = "normalize_input" -> {"user_query", "normalized_query"}
    [] node = "ifixit_search" -> {"ifixit_results", "device_title"}
    [] node = "route_results" -> {"ifixit_found"}
    [] node = "web_search_fallback" -> {"web_results"}
    [] node = "manage_context" -> {"combined_context", "has_results"}
    [] node \in {"format_markdown", "stream_response", "streaming"}
         -> {"format_prompt", "prompt_tokens", "formatted_response", "completion_tokens"}
    [] node = "usage_analytics" -> {"total_tokens"}
    [] node = "checkpoint_save" -> {"messages"}
    [] OTHER -> {}

\* the fields of the turn state that differ after the step
FieldsChanged(before, after) ==
  {k \in DOMAIN before \cup DOMAIN after :
     \/ k \notin DOMAIN before
     \/ k \notin DOMAIN after
     \/ before[k] # after[k]}

\* C30: a step of a stage changes, and adds to the fields written in the turn,
\* only fields that AgentState assigns to that stage: only the routing stage
\* writes ifixit_found, only the rendering and streaming stages write
\* formatted_response, only the checkpoint stage appends to messages
C30_StagesWriteOwnFields ==
  [][\A r \in Requests :
       (req[r].pc \in Range(StageOrder) \cup {"streaming"} /\ req'[r].pc # "raised")
         => /\ FieldsChanged(req[r].state, req'[r].state) \subseteq AgentStateOwned(req[r].pc)
            /\ req'[r].written \ req[r].written \subseteq AgentStateOwned(req[r].pc)]_vars

\* the handler is in the first turn that began after the last successful
\* clear_chat_history
FirstTurnAfterClear(q) ==
  /\ q.pc \notin {"idle", "get_history"}
  /\ left.cleared = left.turns + 1

\* C31: after clear_chat_history succeeded for a user, the next turn of that
\* user runs the pipeline on a transcript without an entry from before the
\* clear: the transcript the graph is invoked on is the history read from the
\* rows of the thread, which all were saved after the clear
C31_ClearedThreadStartsAfresh ==
  \A r \in Requests :
    LET q == req[r]
    IN  (FirstTurnAfterClear(q) /\ q.pc = "normalize_input")
          => /\ q.before = <<>>
             /\ q.state["messages"] = history_of(conversations, thread_id(q.user_id))

\* C32: in every turn the user_query the pipeline processes is the message
\* submitted in that request, and normalized_query is its lower-cased, trimmed
\* form, also when two requests of the user interleave and when the save of
\* the user message or the fetch of the history fails
C32_QueryIsSubmittedMessage ==
  \A r \in DOMAIN req :
    LET q == req[r]
    IN  q.pc = "ifixit_search"
          => /\ q.state["user_query"] = q.message
             /\ q.state["normalized_query"] = Strip(Lower(q.message))

\* the sum of tokens_used over the calls among the first n that are for user u
RECURSIVE TokensOfCalls(_, _)
TokensOfCalls(u, n) ==
  IF n = 0 THEN 0
  ELSE TokensOfCalls(u, n - 1) + (IF req[n].user_id = u THEN req[n].tokens_used ELSE 0)

\* total_tokens of the row of user u in table usage, 0 without a row
StoredTotal(usage, u) == IF u \in DOMAIN usage THEN usage[u] ELSE 0

\* C33: token accounting loses no update: when the calls of track_token_usage
\* for a user have all returned, in whatever interleaving, and no storage call
\* failed, the stored total_tokens is the total before plus the sum of the
\* tokens_used of those calls
C33_NoUpdateLost ==
  \A u \in RouteUsers :
    (\A c \in 1..MaxCalls : req[c].pc = "done")
      => StoredTotal(user_usage, u) = StoredTotal(left.before, u) + TokensOfCalls(u, MaxCalls)

\* the place of a kind of entry in the order of the lookup steps
KindRank(type) ==
  CASE type = "device_search" -> 1
    [] type = "guides_list" -> 2
    [] type = "guide_detail" -> 3
    [] OTHER -> 0

\* C34: after ifixit_search of a turn with a non-empty user_query,
\* ifixit_results holds one to three entries, its non-error entries are in the
\* order device_search, guides_list, guide_detail with each kind at most once,
\* and it holds at most one error entry, which then is the last entry; with
\* an empty user_query ifixit_results is empty and no directory call is made
C34_LookupEntriesShape ==
  \A r \in Requests :
    LET q == req[r]
        results == Get(q.state, "ifixit_results", <<>>)
        errors == {n \in 1..Len(results) : results[n].type = "error"}
    IN  q.pc = "route_results"
          => IF q.state["user_query"] # <<>>
             THEN /\ Len(results) \in 1..3
                  /\ \A n \in 1..Len(results) : results[n].type = "error" \/ KindRank(results[n].type) > 0
                  /\ \A m, n \in (1..Len(results)) \ errors :
                       m < n => KindRank(results[m].type) < KindRank(results[n].type)
                  /\ Cardinality(errors) <= 1
                  /\ errors \subseteq {Len(results)}
                  /\ DirectoryCalls(q.log) # <<>>
             ELSE /\ results = <<>>
                  /\ DirectoryCalls(q.log) = <<>>

\* the lookup ended with three entries of which the last is the error of
\* get_guide
C34_Witness ==
  \E r \in Requests :
    LET q == req[r]
    IN  /\ q.pc = "route_results"
        /\ q.state["user_query"] # <<>>
        /\ Len(q.state["ifixit_results"]) = 3
        /\ q.state["ifixit_results"][3].type = "error"
        /\ q.state["ifixit_results"][2].type = "guides_list"

====
